---- MODULE Spec2Model ----
(***************************************************************************)
(* Model of the sync scripts under "PM Copilot/Scripts":                   *)
(*   fetch_linear_updates_since_last_sync.py  (incremental Linear sync)    *)
(*   fetch_and_replace_all_linear_tasks.py    (full Linear export)         *)
(*   fetch_notion_incremental_updates.py      (incremental Notion sync)    *)
(*                                                                         *)
(* Text is modelled at the granularity the code itself parses it:          *)
(*   - a batch file is the sequence of blocks that splitting on the        *)
(*     delimiter "\n---\n\n" yields after the header;                      *)
(*   - a status document is its sequence of lines;                         *)
(*   - an issue identifier is the sequence of its parts between "-"/"_",   *)
(*     a part being the value of its first digit run, or a negative        *)
(*     number naming a part without digits;                                *)
(*   - time is counted in units of 1/TicksPerSec second: a whole second   *)
(*     is a multiple of TicksPerSec, every event (an edit at the source,  *)
(*     a reading of the clock) falls strictly inside a second.            *)
(***************************************************************************)
EXTENDS Integers, Sequences, FiniteSets, TLC

VARIABLES
    clock,              \* wall clock
    system,             \* the integration the scenario observes: "linear" or "notion"
    nbulk,              \* Linear: number of backlog issues at the source
    src,                \* Linear: active issue -> updatedAt (NotCreated if absent)
    LINEAR_API_KEY,     \* whether the credential is set in the environment
    NOTION_API_SECRET,  \* Notion: whether the credential is configured
    files,              \* Linear: batch index -> file text (LINEAR_DIR/<prefix>-<i>.md)
    statusDoc,          \* text of the status document (STATUS_PATH)
    script,             \* which script is running ("none" when none runs)
    pc,                 \* its position
    status_text,        \* main(): lines returned by parse_status_doc
    last_sync_dt,       \* main(): parsed watermark
    updated_issues,     \* main(): issues returned by the fetch, not yet processed
    entries,            \* main(): merged list of IssueEntry
    existing_batches,   \* main(): batch index -> identifiers (load_existing_entries)
    touched_identifiers,\* main()
    new_identifiers,    \* main()
    latest_updated_at,  \* main()
    changed_batches,    \* main(): batch numbers still to be written
    stale_batches,      \* main(): existing batch numbers still to be unlinked
    rewritten_files,    \* main()
    effects,            \* file-system effects of the latest run, in order
    startDoc,           \* status document as it was when the latest run started
    startFiles,         \* batch files as they were when the latest run started
    outcome,            \* how the latest run ended
    ran,                \* the script of the latest run
    fetched,            \* identifiers the latest run's queries delivered, in order
    crash,              \* the latest terminated run: its script and the files it started from
    runs_left,          \* number of further runs the scenario holds
    kills_left,         \* number of terminations from outside the scenario holds
    output_dir,         \* whether the output directory (LINEAR_DIR, NOTION_DIR) exists
    startDir,           \* whether it existed when the latest run started
    mods,               \* number of source-side modifications made
    attempts,           \* make_api_request: requests issued by the call under way
    response,           \* make_api_request: status code of the latest response
    retry_after,        \* make_api_request: its Retry-After header (0 if absent)
    slept,              \* make_api_request: length of the latest time.sleep
    request_result,     \* make_api_request: where the call stands, how it ended
    child_blocks,       \* the workspace: page -> ids of its child_page blocks, in order
    visited,            \* get_all_child_pages: the set shared by the nested calls
    frames,             \* get_all_child_pages: the nested calls, the innermost last
    block_fetches,      \* page -> number of get_page_blocks calls made for it
    discovered,         \* what the outermost get_all_child_pages call returned
    workspace_pages,    \* search: last_edited_time of the pages, in the order served
    result_pages,       \* search: lengths of the result pages the server cuts them into
    search_after,       \* search_recent_pages: its argument updated_after
    start_cursor,       \* search_recent_pages: number of result pages received
    has_more,           \* search_recent_pages
    results,            \* search_recent_pages: indices of the pages collected
    search_done         \* search_recent_pages has returned results

requestVars == <<attempts, response, retry_after, slept, request_result>>
discoveryVars == <<child_blocks, visited, frames, block_fetches, discovered>>
searchVars == <<workspace_pages, result_pages, search_after, start_cursor, has_more,
                results, search_done>>
libraryVars == <<requestVars, discoveryVars, searchVars>>
envVars == <<system, nbulk, LINEAR_API_KEY, NOTION_API_SECRET, libraryVars>>
localVars == <<status_text, last_sync_dt, updated_issues, entries, existing_batches,
               touched_identifiers, new_identifiers, latest_updated_at,
               changed_batches, stale_batches, rewritten_files>>
frameVars == <<startDoc, startFiles, ran, crash, runs_left, kills_left,
               output_dir, startDir>>
histVars == <<effects, outcome, fetched, frameVars>>
vars == <<clock, src, mods, envVars, files, statusDoc, script, pc, localVars, histVars>>

----------------------------------------------------------------------------
(* Bounds of the model *)

MaxTicks == 1
MaxRuns == 2
MaxMods == 1
MaxKills == 1
MaxDup == 1
MaxIdx == 3
MaxIncoming == 3

(* Program constants *)

BATCH_SIZE == 50
TicksPerSec == 2
\* int(1e12) of get_numeric_identifier, cut to what 32-bit integers hold: any
\* value above every identifier number of the model orders the same way
NoNumericId == 1000000000

\* the watermark an earlier sync left, the time of the edits it saw, the time now
InitWatermark == TicksPerSec
BaselineTime == InitWatermark - 1
StartTime == InitWatermark + 1

----------------------------------------------------------------------------
(* Sequences *)

Range(s) == {s[i] : i \in 1..Len(s)}

Max2(a, b) == IF a >= b THEN a ELSE b

Min2(a, b) == IF a <= b THEN a ELSE b

RECURSIVE Concat(_)
Concat(ss) == IF ss = <<>> THEN <<>> ELSE Head(ss) \o Concat(Tail(ss))

InsertAt(s, i, e) == SubSeq(s, 1, i - 1) \o <<e>> \o SubSeq(s, i, Len(s))

(* all sequences over S that mention every member of S and have at most
   extra repeated members *)
RECURSIVE SeqsOfLen(_, _)
SeqsOfLen(S, n) ==
    IF n = 0 THEN {<<>>}
    ELSE {Append(s, x) : s \in SeqsOfLen(S, n - 1), x \in S}

Listings(S, extra) ==
    {s \in UNION {SeqsOfLen(S, n) : n \in Cardinality(S)..(Cardinality(S) + extra)} :
        Range(s) = S}

----------------------------------------------------------------------------
(* Identifiers and timestamps *)

\* get_numeric_identifier: the last part holding digits decides
RECURSIVE get_numeric_identifier(_)
get_numeric_identifier(identifier) ==
    IF identifier = <<>> THEN NoNumericId
    ELSE IF identifier[Len(identifier)] >= 0 THEN identifier[Len(identifier)]
    ELSE get_numeric_identifier(SubSeq(identifier, 1, Len(identifier) - 1))

\* format_iso_timestamp: isoformat(timespec="seconds") drops the sub-second part;
\* the string is represented by the whole second it names
format_iso_timestamp(dt) == (dt \div TicksPerSec) * TicksPerSec

\* parse_iso_datetime of such a string
parse_iso_datetime(value) == value

----------------------------------------------------------------------------
(* Issues at the source *)

NotCreated == 0 - 1

\* issues that change while the model runs
IdLow == <<-1, 0>>
IdTie == <<-2, 0>>
IdHigh == <<-1, 200>>
ActiveIds == {IdLow, IdTie, IdHigh}

\* the k-th issue of the unchanging backlog; its updatedAt is BaselineTime
BulkId(k) == <<-1, 2 * k>>

\* what the issue's description holds:
\*   "plain"  no delimiter line sequence
\*   "rule"   a horizontal rule (the delimiter) followed by ordinary text
\*   "quote"  a horizontal rule followed by a heading line "# <id>: ..."
DescKind(identifier) ==
    IF identifier = IdHigh THEN "quote"
    ELSE IF identifier = IdTie THEN "rule"
    ELSE "plain"

QuotedId(identifier) == IdLow

Issue(identifier, updatedAt) == [identifier |-> identifier, updatedAt |-> updatedAt]

----------------------------------------------------------------------------
(* Batch file text *)

\* one block between two delimiters: whether its first line starts with "# ",
\* the identifier that line yields, and the text it carries
Block(heading, identifier, text) ==
    [heading |-> heading, identifier |-> identifier, text |-> text]

Body(ver, full) == [ver |-> ver, full |-> full]

\* a batch file: whether it exists, whether it holds the delimiter that ends its
\* header, the generation time its header names, and the blocks after the header
NoFile == [exists |-> FALSE, split |-> FALSE, gen |-> 0, blocks |-> <<>>]

\* a file without the delimiter after its header
BrokenFile == [exists |-> TRUE, split |-> FALSE, gen |-> 0, blocks |-> <<>>]

IssueEntry(identifier, content) == [identifier |-> identifier, content |-> content]

numeric_id(entry) == get_numeric_identifier(entry.identifier)

\* format_issue: heading, metadata, description, comments, final delimiter.
\* The description's own delimiters cut the text into further blocks.
format_issue(issue, comments_ok) ==
    LET text == Body(issue.updatedAt, comments_ok)
        first == Block(TRUE, issue.identifier, text)
    IN  CASE DescKind(issue.identifier) = "plain" -> <<first>>
          [] DescKind(issue.identifier) = "rule" ->
                <<first, Block(FALSE, <<>>, text)>>
          [] DescKind(issue.identifier) = "quote" ->
                <<first, Block(TRUE, QuotedId(issue.identifier), text)>>

ExistingIdx(fs) == {i \in DOMAIN fs : fs[i].exists}

\* text.split("\n---\n\n", 1) raises for a file without the delimiter
Loadable(fs) == \A i \in ExistingIdx(fs) : fs[i].split

\* a loader that keeps a block without a heading line as the end of the entry
\* before it
RECURSIVE BlockEntriesKeepTail(_)
BlockEntriesKeepTail(blocks) ==
    IF blocks = <<>> THEN <<>>
    ELSE LET rest == BlockEntriesKeepTail(SubSeq(blocks, 1, Len(blocks) - 1))
             last == blocks[Len(blocks)]
         IN  IF last.heading THEN Append(rest, IssueEntry(last.identifier, <<last>>))
             ELSE IF rest = <<>> THEN <<>>
             ELSE [rest EXCEPT ![Len(rest)].content = @ \o <<last>>]

\* the blocks the loader keeps: those whose first line starts with "# "
RECURSIVE BlockEntries(_)
BlockEntries(blocks) ==
    IF blocks = <<>> THEN <<>>
    ELSE IF Head(blocks).heading
         THEN <<IssueEntry(Head(blocks).identifier, <<Head(blocks)>>)>>
                  \o BlockEntries(Tail(blocks))
         ELSE BlockEntries(Tail(blocks))

RECURSIVE Identifiers(_)
Identifiers(es) ==
    IF es = <<>> THEN <<>> ELSE <<Head(es).identifier>> \o Identifiers(Tail(es))

\* load_existing_entries: entries of all files in index order ...
RECURSIVE LoadFrom(_, _)
LoadFrom(fs, i) ==
    IF i > MaxIdx THEN <<>>
    ELSE (IF fs[i].exists THEN BlockEntries(fs[i].blocks) ELSE <<>>) \o LoadFrom(fs, i + 1)

load_entries(fs) == LoadFrom(fs, 1)

\* ... and, per batch number, the identifiers found in that file
load_batches(fs) == [i \in ExistingIdx(fs) |-> Identifiers(BlockEntries(fs[i].blocks))]

\* insert_new_entry: before the first entry with a greater numeric id
RECURSIVE InsertPos(_, _, _)
InsertPos(es, target_value, idx) ==
    IF idx > Len(es) THEN idx
    ELSE IF target_value < numeric_id(es[idx]) THEN idx
    ELSE InsertPos(es, target_value, idx + 1)

\* an insertion that puts every new entry at the end
insert_new_entry_at_end(es, entry) == Append(es, entry)

\* an insertion before the first entry with a greater or equal numeric id
RECURSIVE InsertPosBeforeTies(_, _, _)
InsertPosBeforeTies(es, target_value, idx) ==
    IF idx > Len(es) THEN idx
    ELSE IF target_value <= numeric_id(es[idx]) THEN idx
    ELSE InsertPosBeforeTies(es, target_value, idx + 1)

insert_new_entry_before_ties(es, entry) ==
    InsertAt(es, InsertPosBeforeTies(es, numeric_id(entry), 1), entry)

insert_new_entry(es, entry) == InsertAt(es, InsertPos(es, numeric_id(entry), 1), entry)

\* entry_map[identifier].content = issue_markdown: entry_map holds, per identifier,
\* the last entry of the list with that identifier
LastIndexOf(es, identifier) ==
    LET hits == {i \in 1..Len(es) : es[i].identifier = identifier}
    IN  CHOOSE i \in hits : \A j \in hits : j <= i

InEntryMap(es, identifier) == \E i \in 1..Len(es) : es[i].identifier = identifier

\* a merge that takes the entry of a known identifier out and inserts it anew
merge_issue_reinsert(es, issue, comments_ok) ==
    LET issue_markdown == format_issue(issue, comments_ok)
        others == SelectSeq(es, LAMBDA e : e.identifier # issue.identifier)
    IN  insert_new_entry(others, IssueEntry(issue.identifier, issue_markdown))

\* one iteration of the loop of main() over updated_issues
merge_issue(es, issue, comments_ok) ==
    LET issue_markdown == format_issue(issue, comments_ok)
    IN  IF InEntryMap(es, issue.identifier)
        THEN [es EXCEPT ![LastIndexOf(es, issue.identifier)].content = issue_markdown]
        ELSE insert_new_entry(es, IssueEntry(issue.identifier, issue_markdown))

\* build_batches
NumBatches(es) == (Len(es) + BATCH_SIZE - 1) \div BATCH_SIZE

build_batches(es) ==
    [b \in 1..NumBatches(es) |->
        SubSeq(es, (b - 1) * BATCH_SIZE + 1, Min2(b * BATCH_SIZE, Len(es)))]

RECURSIVE Contents(_)
Contents(es) ==
    IF es = <<>> THEN <<>> ELSE Head(es).content \o Contents(Tail(es))

\* render_batch: header with the generation time, delimiter, the entries' contents
render_batch(batch_index, batch_entries, now) ==
    [exists |-> TRUE, split |-> TRUE,
     gen |-> format_iso_timestamp(now), blocks |-> Contents(batch_entries)]

\* a comparison that looks for touched and new ids alone
batch_changed_touched_only(batch_num, batch_entries, existing, touched, new) ==
    LET new_ids == Identifiers(batch_entries)
    IN  \E i \in 1..Len(new_ids) :
            new_ids[i] \in Range(touched) \/ new_ids[i] \in Range(new)

\* a comparison of the member ids alone
batch_changed_membership_only(batch_num, batch_entries, existing, touched, new) ==
    LET new_ids == Identifiers(batch_entries)
        old_ids == IF batch_num \in DOMAIN existing THEN existing[batch_num] ELSE <<>>
    IN  new_ids # old_ids

\* a comparison that also rewrites a batch that is not full
batch_changed_refresh_last(batch_num, batch_entries, existing, touched, new) ==
    LET new_ids == Identifiers(batch_entries)
        old_ids == IF batch_num \in DOMAIN existing THEN existing[batch_num] ELSE <<>>
    IN  \/ new_ids # old_ids
        \/ Len(batch_entries) < BATCH_SIZE
        \/ \E i \in 1..Len(new_ids) :
              new_ids[i] \in Range(touched) \/ new_ids[i] \in Range(new)

\* the comparison of main() that decides whether batch_num is rewritten
batch_changed(batch_num, batch_entries, existing, touched, new) ==
    LET new_ids == Identifiers(batch_entries)
        old_ids == IF batch_num \in DOMAIN existing THEN existing[batch_num] ELSE <<>>
    IN  \/ new_ids # old_ids
        \/ \E i \in 1..Len(new_ids) :
              new_ids[i] \in Range(touched) \/ new_ids[i] \in Range(new)

RECURSIVE AscendingFrom(_, _)
AscendingFrom(S, done) ==
    IF S = {} THEN done
    ELSE LET m == CHOOSE x \in S : \A y \in S : x <= y
         IN  AscendingFrom(S \ {m}, Append(done, m))

Ascending(S) == AscendingFrom(S, <<>>)

compute_changed_batches(es, existing, touched, new) ==
    LET new_batches == build_batches(es)
    IN  Ascending({b \in DOMAIN new_batches :
                      batch_changed(b, new_batches[b], existing, touched, new)})

----------------------------------------------------------------------------
(* Status document text *)

\* one line of the status document:
\*   "label_ts"      `<label>`: <timestamp>Z       (field and value on the line)
\*   "label_colon"   `<label>`:                    (the value follows on a later line)
\*   "label_mention" a line naming `<label>` with no value after it
\*   "ts_only"       a line starting with a timestamp
\*   "heading"       the summary section heading, alone on its line
\*   "bullet"        a line starting with "- " (a summary entry)
\*   "placeholder"   _None yet_
\*   "blank", "text"
NoSummary == [updated |-> 0, new |-> 0, touched |-> <<>>]

Line(k, ts, sum) == [k |-> k, ts |-> ts, sum |-> sum]

LabelTs(ts) == Line("label_ts", ts, NoSummary)
LabelColon == Line("label_colon", 0, NoSummary)
LabelMention == Line("label_mention", 0, NoSummary)
TsOnly(ts) == Line("ts_only", ts, NoSummary)
Heading == Line("heading", 0, NoSummary)
Blank == Line("blank", 0, NoSummary)
Placeholder == Line("placeholder", 0, NoSummary)
TextLine == Line("text", 0, NoSummary)
Bullet(sum) == Line("bullet", 0, sum)

NoDoc == [exists |-> FALSE, lines |-> <<>>]

Doc(lines) == [exists |-> TRUE, lines |-> lines]

HasLabelToken(line) == line.k \in {"label_ts", "label_colon", "label_mention"}

\* index of the first line past i that is not blank (Len + 1 if none)
RECURSIVE SkipBlank(_, _)
SkipBlank(lines, i) ==
    IF i > Len(lines) THEN i
    ELSE IF lines[i].k = "blank" THEN SkipBlank(lines, i + 1)
    ELSE i

\* a pattern that makes the timestamp optional: `<label>`:?\s*([0-9T:\-]+Z)?
PatternAtOptional(lines, i) ==
    \/ lines[i].k \in {"label_ts", "label_mention", "label_colon"}

\* whether the pattern `<label>`:\s*([0-9T:\-]+Z) matches starting on line i;
\* \s* runs over line ends and blank lines
PatternAt(lines, i) ==
    \/ lines[i].k = "label_ts"
    \/ /\ lines[i].k = "label_colon"
       /\ SkipBlank(lines, i + 1) <= Len(lines)
       /\ lines[SkipBlank(lines, i + 1)].k = "ts_only"

PatternValue(lines, i) ==
    IF lines[i].k = "label_ts" THEN lines[i].ts ELSE lines[SkipBlank(lines, i + 1)].ts

Matches(lines) == {i \in 1..Len(lines) : PatternAt(lines, i)}

FirstOf(S) == CHOOSE i \in S : \A j \in S : i <= j

\* parse_status_doc / load_status_timestamp succeed
StatusParses(doc) == doc.exists /\ Matches(doc.lines) # {}

\* the timestamp re.search finds: that of the first match in the text
StatusTimestamp(doc) ==
    parse_iso_datetime(PatternValue(doc.lines, FirstOf(Matches(doc.lines))))

LabelLines(lines) == {i \in 1..Len(lines) : HasLabelToken(lines[i])}

HeadingLines(lines) == {i \in 1..Len(lines) : lines[i].k = "heading"}

\* update_status_doc raises unless a line holds the label token and a line is
\* the section heading
StatusUpdatable(lines) == LabelLines(lines) # {} /\ HeadingLines(lines) # {}

\* re.sub on the first line that holds the label token
ReplaceTimestamp(lines, new_ts_str) ==
    LET idx == FirstOf(LabelLines(lines))
    IN  IF lines[idx].k = "label_ts"
        THEN [lines EXCEPT ![idx] = LabelTs(new_ts_str)]
        ELSE lines

\* index of the first line at or past i that is not a bullet (Len + 1 if none)
RECURSIVE SkipKind(_, _, _)
SkipKind(lines, i, k) ==
    IF i > Len(lines) THEN i
    ELSE IF lines[i].k = k THEN SkipKind(lines, i + 1, k)
    ELSE i

\* fetch_linear_updates_since_last_sync.update_status_doc, lines 374-398
LinearInsertSummary(lines, summary_line) ==
    LET daily_idx == FirstOf(HeadingLines(lines))
        insert_idx == SkipBlank(lines, daily_idx + 1)
    IN  IF insert_idx <= Len(lines) /\ lines[insert_idx].k = "bullet"
        THEN LET after_bullets == SkipKind(lines, insert_idx + 1, "bullet")
                 after_blanks == SkipKind(lines, after_bullets, "blank")
             IN  SubSeq(lines, 1, insert_idx - 1) \o <<summary_line>>
                     \o SubSeq(lines, after_blanks, Len(lines))
        ELSE InsertAt(lines, insert_idx, summary_line)

linear_update_status_doc(text, new_timestamp, summary_line) ==
    Doc(LinearInsertSummary(
            ReplaceTimestamp(text, format_iso_timestamp(new_timestamp)), summary_line))

\* summarize_changes, both scripts: the parts of the change description, joined
\* by ", "; "no changes" when neither list holds anything
change_description(sum) ==
    LET parts == (IF sum.updated > 0 THEN <<"updated">> ELSE <<>>)
                    \o (IF sum.new > 0 THEN <<"new">> ELSE <<>>)
    IN  IF parts = <<>> THEN <<"no changes">> ELSE parts

\* summarize_changes: the counts and the files touched
summarize_changes(updates, new_issues, rewritten) ==
    Bullet([updated |-> Len(updates), new |-> Len(new_issues), touched |-> rewritten])

----------------------------------------------------------------------------
(* Functions of fetch_notion_docs.py that the scripts call: at rest while a
   script is modelled step by step, each modelled on its own below *)

RequestIdle ==
    /\ attempts = 0
    /\ response = 0
    /\ retry_after = 0
    /\ slept = 0
    /\ request_result = "idle"

DiscoveryIdle ==
    /\ child_blocks = <<>>
    /\ visited = {}
    /\ frames = <<>>
    /\ block_fetches = <<>>
    /\ discovered = [done |-> FALSE, child_pages |-> <<>>]

SearchIdle ==
    /\ workspace_pages = <<>>
    /\ result_pages = <<>>
    /\ search_after = 0
    /\ start_cursor = 0
    /\ has_more = FALSE
    /\ results = <<>>
    /\ search_done = FALSE

LibraryIdle == RequestIdle /\ DiscoveryIdle /\ SearchIdle

----------------------------------------------------------------------------
(* The environment: time passes, issues change at the source *)

Tick ==
    /\ clock < StartTime + MaxTicks * TicksPerSec
    /\ clock' = clock + TicksPerSec
    /\ UNCHANGED <<src, mods, envVars, files, statusDoc, script, pc, localVars, histVars>>

\* an issue or a page is created or edited: its updatedAt / last_edited_time
\* becomes the current time
SourceModify ==
    /\ mods < MaxMods
    /\ \E a \in DOMAIN src :
          /\ src[a] # clock
          /\ src' = [src EXCEPT ![a] = clock]
    /\ mods' = mods + 1
    /\ UNCHANGED <<clock, envVars, files, statusDoc, script, pc, localVars, histVars>>

----------------------------------------------------------------------------
(* How a run ends *)

NoLocals ==
    /\ status_text' = <<>>
    /\ last_sync_dt' = 0
    /\ updated_issues' = <<>>
    /\ entries' = <<>>
    /\ existing_batches' = <<>>
    /\ touched_identifiers' = <<>>
    /\ new_identifiers' = <<>>
    /\ latest_updated_at' = 0
    /\ changed_batches' = <<>>
    /\ stale_batches' = <<>>
    /\ rewritten_files' = <<>>

\* the script leaves main() with the given outcome
Exit(how) ==
    /\ script' = "none"
    /\ pc' = "idle"
    /\ outcome' = how
    /\ NoLocals

\* an exception leaves main(): nothing more is written
Raise(why) ==
    /\ Exit(why)
    /\ UNCHANGED <<clock, src, mods, envVars, files, statusDoc,
                   effects, fetched, frameVars>>

\* the process is terminated from outside; the run is then started again, so a
\* terminated run does not count as one of the runs observed
Kill ==
    /\ script # "none"
    /\ kills_left > 0
    /\ kills_left' = kills_left - 1
    /\ Exit("killed")
    /\ runs_left' = runs_left + 1
    /\ crash' = [script |-> script, files |-> startFiles]
    /\ UNCHANGED <<clock, src, mods, envVars, files, statusDoc,
                   effects, fetched, startDoc, startFiles, ran, output_dir, startDir>>

\* the script is started: its module-level statements run (among them
\* <output directory>.mkdir(parents=True, exist_ok=True)), then main() is entered
Begin(which, first) ==
    /\ script = "none"
    /\ runs_left > 0
    /\ runs_left' = runs_left - 1
    /\ output_dir' = TRUE
    /\ startDir' = output_dir
    /\ script' = which
    /\ pc' = first
    /\ outcome' = "running"
    /\ effects' = <<>>
    /\ startDoc' = statusDoc
    /\ startFiles' = files
    /\ ran' = which
    /\ fetched' = <<>>
    /\ UNCHANGED <<kills_left, crash>>

----------------------------------------------------------------------------
(* fetch_linear_updates_since_last_sync.py: main() *)

\* lines 428-429
LinearStart ==
    /\ system = "linear"
    /\ Begin("incremental_linear", "parse_status_doc")
    /\ UNCHANGED <<clock, src, mods, envVars, files, statusDoc, localVars>>

LinearNoKey ==
    /\ script = "incremental_linear" /\ pc = "parse_status_doc"
    /\ ~LINEAR_API_KEY
    /\ Raise("config_error")

\* line 431
LinearParseStatus ==
    /\ script = "incremental_linear" /\ pc = "parse_status_doc"
    /\ LINEAR_API_KEY
    /\ IF StatusParses(statusDoc)
       THEN /\ status_text' = statusDoc.lines
            /\ last_sync_dt' = StatusTimestamp(statusDoc)
            /\ pc' = "fetch_updated_issues"
            /\ UNCHANGED <<clock, src, mods, envVars, files, statusDoc, script,
                           updated_issues, entries, existing_batches,
                           touched_identifiers, new_identifiers, latest_updated_at,
                           changed_batches, stale_batches, rewritten_files, histVars>>
       ELSE Raise("status_error")

\* the issues the query of fetch_updated_issues selects: updatedAt > updatedAfter
Eligible(updated_after) ==
    {a \in ActiveIds : src[a] # NotCreated /\ src[a] > format_iso_timestamp(updated_after)}

RECURSIVE Snapshot(_)
Snapshot(ids) ==
    IF ids = <<>> THEN <<>>
    ELSE <<Issue(Head(ids), src[Head(ids)])>> \o Snapshot(Tail(ids))

\* lines 434-438: get_team_id and fetch_updated_issues; pagination may deliver an
\* issue more than once
LinearFetch ==
    /\ script = "incremental_linear" /\ pc = "fetch_updated_issues"
    /\ \E ids \in Listings(Eligible(last_sync_dt), MaxDup) :
          /\ updated_issues' = Snapshot(ids)
          /\ fetched' = ids
    /\ pc' = "load_existing_entries"
    /\ UNCHANGED <<clock, src, mods, envVars, files, statusDoc, script,
                   status_text, last_sync_dt, entries, existing_batches,
                   touched_identifiers, new_identifiers, latest_updated_at,
                   changed_batches, stale_batches, rewritten_files,
                   effects, outcome, frameVars>>

\* make_graphql_request raises (HTTP error, GraphQL errors, team not found)
LinearFetchFails ==
    /\ script = "incremental_linear" /\ pc = "fetch_updated_issues"
    /\ Raise("fetch_error")

\* lines 440-445
LinearLoad ==
    /\ script = "incremental_linear" /\ pc = "load_existing_entries"
    /\ IF Loadable(files)
       THEN /\ entries' = load_entries(files)
            /\ existing_batches' = load_batches(files)
            /\ touched_identifiers' = <<>>
            /\ new_identifiers' = <<>>
            /\ latest_updated_at' = last_sync_dt
            /\ pc' = "merge"
            /\ UNCHANGED <<clock, src, mods, envVars, files, statusDoc, script,
                           status_text, last_sync_dt, updated_issues,
                           changed_batches, stale_batches, rewritten_files, histVars>>
       ELSE Raise("load_error")

\* lines 447-463: one iteration of the loop; fetch_comments swallows its errors
\* and then returns no comments
LinearMerge ==
    /\ script = "incremental_linear" /\ pc = "merge"
    /\ updated_issues # <<>>
    /\ LET issue == Head(updated_issues)
           updated_at == parse_iso_datetime(issue.updatedAt)
       IN  /\ \E comments_ok \in BOOLEAN :
                  entries' = merge_issue(entries, issue, comments_ok)
           /\ latest_updated_at' = Max2(latest_updated_at, updated_at)
           /\ IF InEntryMap(entries, issue.identifier)
              THEN /\ touched_identifiers' = Append(touched_identifiers, issue.identifier)
                   /\ UNCHANGED new_identifiers
              ELSE /\ new_identifiers' = Append(new_identifiers, issue.identifier)
                   /\ UNCHANGED touched_identifiers
    /\ updated_issues' = Tail(updated_issues)
    /\ UNCHANGED <<clock, src, mods, envVars, files, statusDoc, script, pc,
                   status_text, last_sync_dt, existing_batches,
                   changed_batches, stale_batches, rewritten_files, histVars>>

\* lines 465-480, and the batches line 494 will select for removal
LinearDiff ==
    /\ script = "incremental_linear" /\ pc = "merge"
    /\ updated_issues = <<>>
    /\ changed_batches' = compute_changed_batches(
            entries, existing_batches, touched_identifiers, new_identifiers)
    /\ stale_batches' =
            Ascending({b \in DOMAIN existing_batches : b > NumBatches(entries)})
    /\ pc' = "write"
    /\ UNCHANGED <<clock, src, mods, envVars, files, statusDoc, script,
                   status_text, last_sync_dt, updated_issues, entries, existing_batches,
                   touched_identifiers, new_identifiers, latest_updated_at,
                   rewritten_files, histVars>>

\* a loop that saves the watermark after every batch it writes
LinearWriteBatchCheckpoint ==
    /\ script = "incremental_linear" /\ pc = "write"
    /\ changed_batches # <<>>
    /\ LET batch_num == Head(changed_batches)
       IN  /\ files' = [files EXCEPT ![batch_num] =
                  render_batch(batch_num, build_batches(entries)[batch_num], clock)]
           /\ rewritten_files' = Append(rewritten_files, batch_num)
           /\ statusDoc' = Doc(ReplaceTimestamp(status_text, format_iso_timestamp(clock)))
           /\ effects' = effects \o <<[op |-> "write", target |-> batch_num],
                                      [op |-> "status", target |-> 0]>>
    /\ changed_batches' = Tail(changed_batches)
    /\ UNCHANGED <<clock, src, mods, envVars, script, pc,
                   status_text, last_sync_dt, updated_issues, entries, existing_batches,
                   touched_identifiers, new_identifiers, latest_updated_at,
                   stale_batches, outcome, fetched, frameVars>>

\* lines 483-490: one iteration
LinearWriteBatch ==
    /\ script = "incremental_linear" /\ pc = "write"
    /\ changed_batches # <<>>
    /\ LET batch_num == Head(changed_batches)
       IN  /\ files' = [files EXCEPT ![batch_num] =
                  render_batch(batch_num, build_batches(entries)[batch_num], clock)]
           /\ rewritten_files' = Append(rewritten_files, batch_num)
           /\ effects' = Append(effects, [op |-> "write", target |-> batch_num])
    /\ changed_batches' = Tail(changed_batches)
    /\ UNCHANGED <<clock, src, mods, envVars, statusDoc, script, pc,
                   status_text, last_sync_dt, updated_issues, entries, existing_batches,
                   touched_identifiers, new_identifiers, latest_updated_at,
                   stale_batches, outcome, fetched, frameVars>>

\* lines 493-497: one iteration that finds a stale file
LinearUnlink ==
    /\ script = "incremental_linear" /\ pc = "write"
    /\ changed_batches = <<>>
    /\ stale_batches # <<>>
    /\ LET batch_num == Head(stale_batches)
       IN  IF files[batch_num].exists
           THEN /\ files' = [files EXCEPT ![batch_num] = NoFile]
                /\ effects' = Append(effects, [op |-> "unlink", target |-> batch_num])
           ELSE UNCHANGED <<files, effects>>
    /\ stale_batches' = Tail(stale_batches)
    /\ UNCHANGED <<clock, src, mods, envVars, statusDoc, script, pc,
                   status_text, last_sync_dt, updated_issues, entries, existing_batches,
                   touched_identifiers, new_identifiers, latest_updated_at,
                   changed_batches, rewritten_files,
                   outcome, fetched, frameVars>>

\* lines 499-504
LinearUpdateStatus ==
    /\ script = "incremental_linear" /\ pc = "write"
    /\ changed_batches = <<>>
    /\ stale_batches = <<>>
    /\ LET summary_line == summarize_changes(
                touched_identifiers, new_identifiers, rewritten_files)
           final_timestamp == Max2(latest_updated_at, clock)
       IN  IF StatusUpdatable(status_text)
           THEN /\ statusDoc' =
                      linear_update_status_doc(status_text, final_timestamp, summary_line)
                /\ effects' = Append(effects, [op |-> "status", target |-> 0])
                /\ Exit("done")
                /\ UNCHANGED <<clock, src, mods, envVars, files,
                               fetched, frameVars>>
           ELSE Raise("status_error")

LinearIncremental ==
    \/ LinearStart
    \/ LinearNoKey
    \/ LinearParseStatus
    \/ LinearFetch
    \/ LinearFetchFails
    \/ LinearLoad
    \/ LinearMerge
    \/ LinearDiff
    \/ LinearWriteBatch
    \/ LinearUnlink
    \/ LinearUpdateStatus

----------------------------------------------------------------------------
(* fetch_and_replace_all_linear_tasks.py *)

RECURSIVE BulkIssues(_, _)
BulkIssues(k, n) ==
    IF k > n THEN <<>> ELSE <<Issue(BulkId(k), BaselineTime)>> \o BulkIssues(k + 1, n)

\* issues.sort(key=get_numeric_identifier): a stable sort, so the issues come out
\* key by key in ascending order and, within one key, in their order of arrival
WithKey(issues, key) ==
    SelectSeq(issues, LAMBDA issue : get_numeric_identifier(issue.identifier) = key)

sort_issues(issues) ==
    LET keys == Ascending({get_numeric_identifier(issues[i].identifier) :
                              i \in 1..Len(issues)})
    IN  Concat([k \in 1..Len(keys) |-> WithKey(issues, keys[k])])

\* the slice of issues written to batch file batch_num (1-based), lines 315-318
batch_issues(issues, batch_num) ==
    SubSeq(issues, (batch_num - 1) * BATCH_SIZE + 1,
           Min2(batch_num * BATCH_SIZE, Len(issues)))

\* the text written for one batch: each issue formatted in turn; failed is the
\* set of identifiers whose comments could not be fetched
RECURSIVE FormatAll(_, _)
FormatAll(issues, failed) ==
    IF issues = <<>> THEN <<>>
    ELSE format_issue(Head(issues), Head(issues).identifier \notin failed)
            \o FormatAll(Tail(issues), failed)

RECURSIVE MaxUpdated(_, _)
MaxUpdated(issues, best) ==
    IF issues = <<>> THEN best
    ELSE MaxUpdated(Tail(issues), Max2(best, parse_iso_datetime(Head(issues).updatedAt)))

\* update_status_last_sync: re.subn(..., count=1) rewrites the value of the first
\* match in the text; without a document or a match nothing is written
full_status_writes(doc) == StatusParses(doc)

full_update_status(doc, new_timestamp) ==
    LET i == FirstOf(Matches(doc.lines))
        new_ts_str == format_iso_timestamp(new_timestamp)
    IN  IF doc.lines[i].k = "label_ts"
        THEN Doc([doc.lines EXCEPT ![i] = LabelTs(new_ts_str)])
        ELSE Doc([doc.lines EXCEPT ![SkipBlank(doc.lines, i + 1)] = TsOnly(new_ts_str)])

CreatedActive == {a \in ActiveIds : src[a] # NotCreated}

\* line 284
FullStart ==
    /\ system = "linear"
    /\ Begin("full_linear", "fetch_all_issues")
    /\ UNCHANGED <<clock, src, mods, envVars, files, statusDoc, localVars>>

\* lines 287-289: without the credential main() prints a message and returns
FullNoKey ==
    /\ script = "full_linear" /\ pc = "fetch_all_issues"
    /\ ~LINEAR_API_KEY
    /\ Exit("done")
    /\ UNCHANGED <<clock, src, mods, envVars, files, statusDoc,
                   effects, fetched, frameVars>>

\* lines 292-311: get_team_id, fetch_all_issues, the sort, the batch count
FullFetch ==
    /\ script = "full_linear" /\ pc = "fetch_all_issues"
    /\ LINEAR_API_KEY
    /\ \E ids \in Listings(CreatedActive, 0) :
          LET issues == sort_issues(Snapshot(ids) \o BulkIssues(1, nbulk))
          IN  IF issues = <<>>
              THEN /\ Exit("done")
                   /\ UNCHANGED <<clock, src, mods, envVars, files, statusDoc,
                                  effects, fetched, frameVars>>
              ELSE /\ updated_issues' = issues
                   /\ fetched' = Identifiers(issues)
                   /\ changed_batches' =
                          [b \in 1..((Len(issues) + BATCH_SIZE - 1) \div BATCH_SIZE) |-> b]
                   /\ pc' = "write"
                   /\ UNCHANGED <<clock, src, mods, envVars, files, statusDoc, script,
                                  status_text, last_sync_dt, entries, existing_batches,
                                  touched_identifiers, new_identifiers,
                                  latest_updated_at, stale_batches, rewritten_files,
                                  effects, outcome, frameVars>>

\* response.raise_for_status() raises; the handler at the end of the file prints
FullFetchFails ==
    /\ script = "full_linear" /\ pc = "fetch_all_issues"
    /\ LINEAR_API_KEY
    /\ Raise("fetch_error")

\* lines 313-337: one batch file; fetch_comments swallows its errors
FullWriteBatch ==
    /\ script = "full_linear" /\ pc = "write"
    /\ changed_batches # <<>>
    /\ LET batch_num == Head(changed_batches)
           slice == batch_issues(updated_issues, batch_num)
       IN  /\ \E failed \in SUBSET (Range(Identifiers(slice)) \cap ActiveIds) :
                  files' = [files EXCEPT ![batch_num] =
                      [exists |-> TRUE, split |-> TRUE,
                       gen |-> format_iso_timestamp(clock),
                       blocks |-> FormatAll(slice, failed)]]
           /\ effects' = Append(effects, [op |-> "write", target |-> batch_num])
    /\ changed_batches' = Tail(changed_batches)
    /\ UNCHANGED <<clock, src, mods, envVars, statusDoc, script, pc,
                   status_text, last_sync_dt, updated_issues, entries, existing_batches,
                   touched_identifiers, new_identifiers, latest_updated_at,
                   stale_batches, rewritten_files,
                   outcome, fetched, frameVars>>

\* lines 341-352
FullUpdateStatus ==
    /\ script = "full_linear" /\ pc = "write"
    /\ changed_batches = <<>>
    /\ LET latest_updated == MaxUpdated(Tail(updated_issues),
                                        parse_iso_datetime(Head(updated_issues).updatedAt))
       IN  IF full_status_writes(statusDoc)
           THEN /\ statusDoc' = full_update_status(statusDoc, latest_updated)
                /\ effects' = Append(effects, [op |-> "status", target |-> 0])
           ELSE UNCHANGED <<statusDoc, effects>>
    /\ Exit("done")
    /\ UNCHANGED <<clock, src, mods, envVars, files,
                   fetched, frameVars>>

FullReplace ==
    \/ FullStart
    \/ FullNoKey
    \/ FullFetch
    \/ FullFetchFails
    \/ FullWriteBatch
    \/ FullUpdateStatus

----------------------------------------------------------------------------
(* fetch_notion_incremental_updates.py *)

\* The workspace: a page of a database and two root pages with the same title.
\* A markdown path is a number: 1 is <database>/<title>.md, 2 is
\* Root Pages/<title>.md, 3 is a second file under Root Pages.
PgDb == "db_page"
PgRoot == "root_page"
PgTwin == "root_twin"
NotionPages == {PgDb, PgRoot, PgTwin}

InDatabase(page_id) == page_id = PgDb

PathDir(path) == IF path = 1 THEN "database" ELSE "Root Pages"

PageDir(page_id) == IF InDatabase(page_id) THEN "database" ELSE "Root Pages"

\* output_dir / (sanitize_filename(title) + ".md")
Candidate(page_id) == IF InDatabase(page_id) THEN 1 ELSE 2

NoPageFile == [exists |-> FALSE, page |-> "", ver |-> 0, full |-> FALSE]

\* format_page_markdown: the URL line carries the page id, the body the blocks
format_page_markdown(page_id, ver, blocks_ok) ==
    [exists |-> TRUE, page |-> page_id, ver |-> ver, full |-> blocks_ok]

\* resolve_target_path: the file named after the title if it exists, else a file
\* of the directory whose text holds the page id, else the file named after the title
resolve_target_path(fs, page_id) ==
    LET candidate == Candidate(page_id)
        holding == {path \in DOMAIN fs :
                       /\ PathDir(path) = PageDir(page_id)
                       /\ fs[path].exists
                       /\ fs[path].page = page_id}
    IN  IF fs[candidate].exists THEN candidate
        ELSE IF holding # {} THEN FirstOf(holding)
        ELSE candidate

Page(page_id, last_edited_time) == [id |-> page_id, last_edited_time |-> last_edited_time]

RECURSIVE PageSnapshot(_)
PageSnapshot(ids) ==
    IF ids = <<>> THEN <<>>
    ELSE <<Page(Head(ids), src[Head(ids)])>> \o PageSnapshot(Tail(ids))

\* query_database_since: the filter last_edited_time after updated_after_iso
DatabaseEligible(updated_after) ==
    {p \in NotionPages : /\ InDatabase(p)
                         /\ src[p] # NotCreated
                         /\ src[p] > format_iso_timestamp(updated_after)}

\* search_recent_pages keeps last_dt > updated_after; group_root_pages drops the
\* pages of a database
RootEligible(updated_after) ==
    {p \in NotionPages : /\ ~InDatabase(p)
                         /\ src[p] # NotCreated
                         /\ parse_iso_datetime(src[p]) > updated_after}

\* fetch_notion_incremental_updates.update_status_doc, lines 281-294
NotionInsertSummary(lines, summary_line) ==
    LET section_idx == FirstOf(HeadingLines(lines))
        insert_idx == SkipBlank(lines, section_idx + 1)
    IN  IF insert_idx <= Len(lines) /\ lines[insert_idx].k = "placeholder"
        THEN [lines EXCEPT ![insert_idx] = summary_line]
        ELSE InsertAt(lines, insert_idx, summary_line)

notion_update_status_doc(text, new_timestamp, summary_line) ==
    Doc(NotionInsertSummary(
            ReplaceTimestamp(text, format_iso_timestamp(new_timestamp)), summary_line))

\* summarize_changes: the counts and the sorted set of touched paths
notion_summarize_changes(updated, new) ==
    Bullet([updated |-> Len(updated), new |-> Len(new),
            touched |-> Ascending(Range(updated) \cup Range(new))])

LinearLocals == <<entries, existing_batches, changed_batches, stale_batches,
                  rewritten_files>>

\* line 299
NotionStart ==
    /\ system = "notion"
    /\ Begin("incremental_notion", "load_status_timestamp")
    /\ UNCHANGED <<clock, src, mods, envVars, files, statusDoc, localVars>>

\* lines 300-301
NotionNoSecret ==
    /\ script = "incremental_notion" /\ pc = "load_status_timestamp"
    /\ ~NOTION_API_SECRET
    /\ Raise("config_error")

\* lines 303-311: load_status_timestamp, discover_databases
NotionLoadStatus ==
    /\ script = "incremental_notion" /\ pc = "load_status_timestamp"
    /\ NOTION_API_SECRET
    /\ IF StatusParses(statusDoc)
       THEN /\ status_text' = statusDoc.lines
            /\ last_sync_dt' = StatusTimestamp(statusDoc)
            /\ latest_updated_at' = StatusTimestamp(statusDoc)
            /\ pc' = "query_database_since"
            /\ UNCHANGED <<clock, src, mods, envVars, files, statusDoc, script,
                           updated_issues, touched_identifiers, new_identifiers,
                           LinearLocals, histVars>>
       ELSE Raise("status_error")

\* lines 313-323: the query of the database
NotionQueryDatabase ==
    /\ script = "incremental_notion" /\ pc = "query_database_since"
    /\ \E ids \in Listings(DatabaseEligible(last_sync_dt), 0) :
          /\ updated_issues' = PageSnapshot(ids)
          /\ fetched' = ids
    /\ pc' = "export_database_pages"
    /\ UNCHANGED <<clock, src, mods, envVars, files, statusDoc, script,
                   status_text, last_sync_dt, latest_updated_at,
                   touched_identifiers, new_identifiers, LinearLocals,
                   effects, outcome, frameVars>>

\* make_api_request raises for a failed request of discover_databases,
\* query_database_since or search_recent_pages
NotionRequestFails ==
    /\ script = "incremental_notion"
    /\ \/ pc = "query_database_since"
       \/ pc = "export_database_pages" /\ updated_issues = <<>>
    /\ Raise("fetch_error")

\* lines 324-339 and 347-362: one iteration; export_page returns None when the
\* page cannot be retrieved, and get_page_blocks stops at a failed request
NotionExportPage ==
    /\ script = "incremental_notion"
    /\ pc \in {"export_database_pages", "export_root_pages"}
    /\ updated_issues # <<>>
    /\ LET page == Head(updated_issues)
           target_path == resolve_target_path(files, page.id)
           existed_before == files[target_path].exists
       IN  \E got \in {"page and blocks", "page", "nothing"} :
              IF got = "nothing"
              THEN UNCHANGED <<files, latest_updated_at, touched_identifiers,
                               new_identifiers, effects>>
              ELSE /\ files' = [files EXCEPT ![target_path] =
                          format_page_markdown(page.id, src[page.id],
                                               got = "page and blocks")]
                   /\ effects' = Append(effects, [op |-> "write", target |-> target_path])
                   /\ latest_updated_at' =
                          Max2(latest_updated_at, parse_iso_datetime(page.last_edited_time))
                   /\ IF existed_before
                      THEN /\ touched_identifiers' = Append(touched_identifiers, target_path)
                           /\ UNCHANGED new_identifiers
                      ELSE /\ new_identifiers' = Append(new_identifiers, target_path)
                           /\ UNCHANGED touched_identifiers
    /\ updated_issues' = Tail(updated_issues)
    /\ UNCHANGED <<clock, src, mods, envVars, statusDoc, script, pc,
                   status_text, last_sync_dt, LinearLocals,
                   outcome, fetched, frameVars>>

\* lines 341-346: search_recent_pages, group_root_pages
NotionSearch ==
    /\ script = "incremental_notion" /\ pc = "export_database_pages"
    /\ updated_issues = <<>>
    /\ \E ids \in Listings(RootEligible(last_sync_dt), 0) :
          /\ updated_issues' = PageSnapshot(ids)
          /\ fetched' = fetched \o ids
    /\ pc' = "export_root_pages"
    /\ UNCHANGED <<clock, src, mods, envVars, files, statusDoc, script,
                   status_text, last_sync_dt, latest_updated_at,
                   touched_identifiers, new_identifiers, LinearLocals,
                   effects, outcome, frameVars>>

\* lines 368-370
NotionUpdateStatus ==
    /\ script = "incremental_notion" /\ pc = "export_root_pages"
    /\ updated_issues = <<>>
    /\ LET final_timestamp == Max2(latest_updated_at, clock)
           summary_line == notion_summarize_changes(touched_identifiers, new_identifiers)
       IN  IF StatusUpdatable(status_text)
           THEN /\ statusDoc' =
                      notion_update_status_doc(status_text, final_timestamp, summary_line)
                /\ effects' = Append(effects, [op |-> "status", target |-> 0])
                /\ Exit("done")
                /\ UNCHANGED <<clock, src, mods, envVars, files,
                               fetched, frameVars>>
           ELSE Raise("status_error")

NotionIncremental ==
    \/ NotionStart
    \/ NotionNoSecret
    \/ NotionLoadStatus
    \/ NotionQueryDatabase
    \/ NotionRequestFails
    \/ NotionExportPage
    \/ NotionSearch
    \/ NotionUpdateStatus

----------------------------------------------------------------------------
(* Initial states *)

\* the backlog, in the order an earlier export left it
RECURSIVE BulkEntries(_, _)
BulkEntries(k, n) ==
    IF k > n THEN <<>>
    ELSE <<IssueEntry(BulkId(k), <<Block(TRUE, BulkId(k), Body(BaselineTime, TRUE))>>)>>
             \o BulkEntries(k + 1, n)

ActiveEntry(a) == IssueEntry(a, format_issue(Issue(a, BaselineTime), TRUE))

\* the entries on disk before the first run: every issue created so far, sorted
BaselineEntries(n, created) ==
    (IF IdLow \in created THEN <<ActiveEntry(IdLow)>> ELSE <<>>)
        \o (IF IdTie \in created THEN <<ActiveEntry(IdTie)>> ELSE <<>>)
        \o BulkEntries(1, n)

FileOf(es) == [exists |-> TRUE, split |-> TRUE, gen |-> 0, blocks |-> Contents(es)]

CanonFiles(es) == [b \in 1..NumBatches(es) |-> FileOf(build_batches(es)[b])]

\* the ways the entries may be spread over batch files before a run
Layouts(es) ==
    {CanonFiles(es)}
      \cup {<<NoFile>> \o CanonFiles(es)}
      \cup {CanonFiles(es) \o <<FileOf(<<>>)>>}
      \cup {CanonFiles(es) \o <<BrokenFile>>}
      \cup (IF Len(es) >= 2
            THEN {<<FileOf(SubSeq(es, 1, 1))>> \o CanonFiles(Tail(es))}
            ELSE {})
      \cup (IF Len(es) > BATCH_SIZE + 1
            THEN {<<FileOf(SubSeq(es, 1, BATCH_SIZE)),
                    FileOf(SubSeq(es, BATCH_SIZE + 1, BATCH_SIZE + 1)),
                    FileOf(SubSeq(es, BATCH_SIZE + 2, Len(es)))>>}
            ELSE {})

Pad(fs) == [i \in 1..MaxIdx |-> IF i <= Len(fs) THEN fs[i] ELSE NoFile]

BulkSizes == {0, BATCH_SIZE - 1, BATCH_SIZE}

GoodDoc == Doc(<<TextLine, LabelTs(InitWatermark), Blank, Heading, Blank, Placeholder>>)

StatusDocs ==
    {GoodDoc,
     NoDoc,
     Doc(<<LabelTs(InitWatermark), TextLine>>),
     Doc(<<TextLine, Heading, Placeholder>>),
     Doc(<<LabelMention, LabelTs(InitWatermark), Heading, Bullet(NoSummary), Bullet(NoSummary)>>),
     Doc(<<LabelColon, TsOnly(InitWatermark), Heading>>),
     Doc(<<LabelMention, Blank, Heading, Placeholder>>)}

InitSync ==
    /\ clock = StartTime
    /\ mods = 0
    /\ script = "none"
    /\ pc = "idle"
    /\ status_text = <<>>
    /\ last_sync_dt = 0
    /\ updated_issues = <<>>
    /\ entries = <<>>
    /\ existing_batches = <<>>
    /\ touched_identifiers = <<>>
    /\ new_identifiers = <<>>
    /\ latest_updated_at = 0
    /\ changed_batches = <<>>
    /\ stale_batches = <<>>
    /\ rewritten_files = <<>>
    /\ effects = <<>>
    /\ startDoc = statusDoc
    /\ startFiles = files
    /\ outcome = "none"
    /\ ran = "none"
    /\ fetched = <<>>
    /\ crash = [script |-> "none", files |-> files]
    /\ startDir = output_dir

\* the scripts' state before a first run; no function of the library under way
InitCommon == InitSync /\ LibraryIdle

\* batch files in every layout, a well-formed status document
InitLayouts ==
    /\ system = "linear"
    /\ nbulk \in BulkSizes
    /\ \E created \in SUBSET {IdLow, IdTie} :
          /\ src = [a \in ActiveIds |-> IF a \in created THEN BaselineTime ELSE NotCreated]
          /\ \E fs \in Layouts(BaselineEntries(nbulk, created)) : files = Pad(fs)
    /\ LINEAR_API_KEY = TRUE
    /\ NOTION_API_SECRET = TRUE
    /\ statusDoc = GoodDoc
    /\ runs_left = 1
    /\ kills_left = 0
    /\ output_dir = TRUE
    /\ InitCommon

\* status documents of every shape, batch files as an export left them
InitDocs ==
    /\ system = "linear"
    /\ nbulk = BATCH_SIZE
    /\ src = [a \in ActiveIds |-> NotCreated]
    /\ files = Pad(CanonFiles(BaselineEntries(nbulk, {})))
    /\ LINEAR_API_KEY \in BOOLEAN
    /\ NOTION_API_SECRET = TRUE
    /\ statusDoc \in StatusDocs
    /\ runs_left = MaxRuns
    /\ kills_left = 0
    /\ output_dir = TRUE
    /\ InitCommon

\* a run that is terminated at some step and then started again
InitRetry ==
    /\ system = "linear"
    /\ nbulk \in {0, BATCH_SIZE}
    /\ src = [a \in ActiveIds |-> NotCreated]
    /\ files = Pad(CanonFiles(BaselineEntries(nbulk, {})))
    /\ LINEAR_API_KEY = TRUE
    /\ NOTION_API_SECRET = TRUE
    /\ statusDoc = GoodDoc
    /\ runs_left = 1
    /\ kills_left = MaxKills
    /\ output_dir = TRUE
    /\ InitCommon

\* a Notion workspace whose pages an earlier export wrote to disk, each to the
\* file named after its title
PageFiles(created) ==
    [path \in 1..MaxIdx |->
        IF \E p \in created : Candidate(p) = path
        THEN format_page_markdown(CHOOSE p \in created : Candidate(p) = path,
                                  BaselineTime, TRUE)
        ELSE NoPageFile]

InitNotion ==
    /\ system = "notion"
    /\ nbulk = 0
    /\ \E created \in SUBSET NotionPages :
          /\ \A p, q \in created : Candidate(p) = Candidate(q) => p = q
          /\ src = [p \in NotionPages |-> IF p \in created THEN BaselineTime ELSE NotCreated]
          /\ files = PageFiles(created)
    /\ LINEAR_API_KEY = TRUE
    /\ NOTION_API_SECRET \in BOOLEAN
    /\ statusDoc \in StatusDocs
    /\ runs_left = MaxRuns
    /\ kills_left = MaxKills
    /\ output_dir = TRUE
    /\ InitCommon

\* a checkout in which no script has run yet: no output directory, so no batch
\* file, no page file and no status document
InitFresh ==
    /\ system \in {"linear", "notion"}
    /\ nbulk = 0
    /\ src = [a \in (IF system = "linear" THEN ActiveIds ELSE NotionPages) |-> NotCreated]
    /\ files = (IF system = "linear" THEN Pad(<<>>) ELSE PageFiles({}))
    /\ LINEAR_API_KEY \in BOOLEAN
    /\ NOTION_API_SECRET \in BOOLEAN
    /\ statusDoc = NoDoc
    /\ output_dir = FALSE
    /\ runs_left = 1
    /\ kills_left = 0
    /\ InitCommon

Init == InitLayouts \/ InitDocs \/ InitRetry \/ InitNotion \/ InitFresh

Next ==
    \/ Tick
    \/ SourceModify
    \/ Kill
    \/ LinearIncremental
    \/ FullReplace
    \/ NotionIncremental

Spec == Init /\ [][Next]_vars

----------------------------------------------------------------------------
(* The merge loop of main() on its own: every small sorted baseline, every
   short sequence of incoming issues *)

MergePool == <<IdLow, IdTie, BulkId(1), BulkId(2), IdHigh>>

\* the sorted baselines over the pool: a subsequence of the pool, the two issues
\* with the same number in either order
Baselines ==
    LET pick(chosen) == SelectSeq(MergePool, LAMBDA a : a \in chosen)
        swap(ids) == IF Len(ids) >= 2 /\ ids[1] = IdLow /\ ids[2] = IdTie
                     THEN <<IdTie, IdLow>> \o SubSeq(ids, 3, Len(ids))
                     ELSE ids
    IN  UNION {{pick(chosen), swap(pick(chosen))} : chosen \in SUBSET Range(MergePool)}

RECURSIVE EntriesOf(_)
EntriesOf(ids) ==
    IF ids = <<>> THEN <<>>
    ELSE <<IssueEntry(Head(ids), <<Block(TRUE, Head(ids), Body(BaselineTime, TRUE))>>)>>
            \o EntriesOf(Tail(ids))

RECURSIVE IssuesAt(_, _)
IssuesAt(ids, updatedAt) ==
    IF ids = <<>> THEN <<>>
    ELSE <<Issue(Head(ids), updatedAt)>> \o IssuesAt(Tail(ids), updatedAt)

\* main() after line 445: the status document parsed, the issues fetched, the
\* batch files loaded
InitMerge ==
    /\ system = "linear"
    /\ nbulk = 0
    /\ clock = StartTime
    /\ mods = 0
    /\ src = [a \in ActiveIds |-> NotCreated]
    /\ LINEAR_API_KEY = TRUE
    /\ NOTION_API_SECRET = TRUE
    /\ statusDoc = GoodDoc
    /\ \E ids \in Baselines : files = Pad(CanonFiles(EntriesOf(ids)))
    /\ script = "incremental_linear"
    /\ pc = "merge"
    /\ status_text = statusDoc.lines
    /\ last_sync_dt = StatusTimestamp(statusDoc)
    /\ \E n \in 0..MaxIncoming : \E ids \in SeqsOfLen(Range(MergePool), n) :
          /\ fetched = ids
          /\ updated_issues = IssuesAt(ids, StartTime)
    /\ entries = load_entries(files)
    /\ existing_batches = load_batches(files)
    /\ touched_identifiers = <<>>
    /\ new_identifiers = <<>>
    /\ latest_updated_at = last_sync_dt
    /\ changed_batches = <<>>
    /\ stale_batches = <<>>
    /\ rewritten_files = <<>>
    /\ effects = <<>>
    /\ startDoc = statusDoc
    /\ startFiles = files
    /\ outcome = "running"
    /\ ran = "incremental_linear"
    /\ crash = [script |-> "none", files |-> files]
    /\ runs_left = 0
    /\ kills_left = 0
    /\ output_dir = TRUE
    /\ startDir = TRUE
    /\ LibraryIdle

NextMerge == LinearMerge

SpecMerge == InitMerge /\ [][NextMerge]_vars

----------------------------------------------------------------------------
(* Properties *)

Incremental == {"incremental_linear", "incremental_notion"}

Errors == {"config_error", "status_error", "fetch_error", "load_error"}

StatusWrites == {i \in 1..Len(effects) : effects[i].op = "status"}

\* the document holds the watermark: the label, a colon and, after white space
\* at most, a timestamp
HasWatermark(doc) ==
    /\ doc.exists
    /\ \E i \in 1..Len(doc.lines) :
          \/ doc.lines[i].k = "label_ts"
          \/ /\ doc.lines[i].k = "label_colon"
             /\ \E j \in (i + 1)..Len(doc.lines) :
                   /\ doc.lines[j].k = "ts_only"
                   /\ \A m \in (i + 1)..(j - 1) : doc.lines[m].k = "blank"

LacksHeading(doc) == doc.exists /\ HeadingLines(doc.lines) = {}

\* the run has no fetch, merge or diff step ahead of it
FetchingOver ==
    \/ script = "none"
    \/ script = "incremental_linear" /\ pc = "write"
    \/ script = "incremental_notion" /\ pc = "export_root_pages" /\ updated_issues = <<>>

\* the latest version of record a, with all of its content, is in the output
Materialised(a) ==
    IF system = "linear"
    THEN \E b \in ExistingIdx(files) :
            \E i \in 1..Len(files[b].blocks) :
                files[b].blocks[i] = Block(TRUE, a, Body(src[a], TRUE))
    ELSE \E path \in DOMAIN files : files[path] = format_page_markdown(a, src[a], TRUE)

Accounted ==
    \A a \in DOMAIN src :
        (src[a] # NotCreated /\ src[a] <= StatusTimestamp(statusDoc)) => Materialised(a)

\* C2: when an incremental run completes, every source record whose updated_at is
\* at or before the watermark the run persisted has its latest version, with all
\* of its content, in the local output.
C2_WatermarkFullyAccounted ==
    [][(ran \in Incremental /\ outcome = "running" /\ outcome' = "done")
            => Accounted']_vars

\* C3: the watermark stored in the status document never decreases, whichever
\* script rewrites the document.
C3_MonotonicWatermark ==
    [][(StatusParses(statusDoc) /\ StatusParses(statusDoc'))
            => StatusTimestamp(statusDoc') >= StatusTimestamp(statusDoc)]_vars

\* C4: an incremental run whose status document holds the watermark but not the
\* summary section heading fails, and has then written or deleted no output file
\* and left the status document as it was.
C4_MissingHeadingFailsBeforeWrites ==
    (ran \in Incremental /\ HasWatermark(startDoc) /\ LacksHeading(startDoc)) =>
        /\ outcome # "done"
        /\ effects = <<>>
        /\ files = startFiles
        /\ statusDoc = startDoc

\* C5: an incremental run whose status document is absent, or holds no watermark
\* label followed by a timestamp, ends with an error before it fetches anything:
\* no output file is written or deleted and the status document is unchanged.
C5_NoWatermarkFailsBeforeFetch ==
    (ran \in Incremental /\ ~HasWatermark(startDoc)) =>
        /\ pc \in {"parse_status_doc", "load_status_timestamp", "idle"}
        /\ outcome \in {"running", "killed"} \cup Errors
        /\ fetched = <<>>
        /\ effects = <<>>
        /\ files = startFiles
        /\ statusDoc = startDoc

C5_Witness ==
    /\ ran = "incremental_linear"
    /\ LINEAR_API_KEY
    /\ startDoc.exists
    /\ ~HasWatermark(startDoc)
    /\ outcome = "status_error"

\* C6: in an incremental run the first write or delete of an output file comes
\* after all fetching, merging and diffing; a run that fails while fetching or
\* loading leaves every output file as it was.
C6_NoPartialWrites ==
    ran \in Incremental =>
        /\ effects # <<>> => FetchingOver
        /\ outcome \in {"fetch_error", "load_error"} => files = startFiles

\* C7: a run writes the status document at most once, as its last file-system
\* effect; until then, and so in a run terminated before that write, the status
\* document is the one the run started with.
C7_StatusWrittenOnceAndLast ==
    /\ Cardinality(StatusWrites) <= 1
    /\ StatusWrites # {} => (StatusWrites = {Len(effects)} /\ script = "none")
    /\ StatusWrites = {} => statusDoc = startDoc

C7_Witness ==
    /\ outcome = "killed"
    /\ ran \in Incremental
    /\ effects # <<>>
    /\ HasWatermark(statusDoc)
    /\ StatusTimestamp(statusDoc) = StatusTimestamp(startDoc)

SortKeys(ids) == [i \in 1..Len(ids) |-> get_numeric_identifier(ids[i])]

NonDecreasing(keys) == \A i, j \in 1..Len(keys) : i < j => keys[i] <= keys[j]

StrictlyAscending(keys) == \A i, j \in 1..Len(keys) : i < j => keys[i] < keys[j]

Unique(ids) == \A i, j \in 1..Len(ids) : i < j => ids[i] # ids[j]

\* the identifiers the loader reads from a set of batch files, in index order
DiskIds(fs) == Identifiers(load_entries(fs))

CompletedLinearRun == ran = "incremental_linear" /\ outcome = "done"

RECURSIVE MergeAll(_, _)
MergeAll(es, ids) ==
    IF ids = <<>> THEN es
    ELSE MergeAll(merge_issue(es, Issue(Head(ids), src[Head(ids)]), TRUE), Tail(ids))

\* C8: when an incremental Linear run is terminated and the run started next
\* completes, the batch files hold the records, in the order, that an
\* uninterrupted run from the files before the crash would have left; no record
\* on disk before the crash is missing.
C8_CrashAndRetry ==
    (CompletedLinearRun /\ crash.script = "incremental_linear") =>
        /\ Range(DiskIds(crash.files)) \subseteq Range(DiskIds(files))
        /\ DiskIds(files) =
              Identifiers(BlockEntries(Contents(
                  MergeAll(load_entries(crash.files), fetched))))

Members(b) == Len(BlockEntries(files[b].blocks))

Processed == SubSeq(fetched, 1, Len(fetched) - Len(updated_issues))

MergedLength ==
    Len(DiskIds(startFiles))
        + Cardinality(Range(Processed) \ Range(DiskIds(startFiles)))

\* C10 as stated: the merge of a sorted baseline of unique ids with any incoming
\* sequence is strictly ascending in sort key, holds each id once and has the
\* length of the baseline plus the number of distinct incoming ids new to it.
C10_MergeStrictlyAscending ==
    StrictlyAscending(SortKeys(DiskIds(startFiles))) =>
        /\ StrictlyAscending(SortKeys(Identifiers(entries)))
        /\ Unique(Identifiers(entries))
        /\ Len(entries) = MergedLength

\* C10 as amended: the merge of a sorted baseline of unique ids with any incoming
\* sequence never descends in sort key (ids with the same key stay adjacent, in
\* order of arrival), holds each id once and has the length of the baseline plus
\* the number of distinct incoming ids new to it.
C10_MergeSorted ==
    /\ NonDecreasing(SortKeys(Identifiers(entries)))
    /\ Unique(Identifiers(entries))
    /\ Len(entries) = MergedLength

C10_Witness ==
    /\ updated_issues = <<>>
    /\ Len(fetched) = MaxIncoming
    /\ ~Unique(fetched)
    /\ new_identifiers # <<>>
    /\ touched_identifiers # <<>>
    /\ ~StrictlyAscending(SortKeys(Identifiers(entries)))
    /\ Len(entries) > Len(DiskIds(startFiles))

----------------------------------------------------------------------------
(* Ties, in-place updates and the diff *)

\* position of the first occurrence of a in ids
PosIn(ids, a) == FirstOf({i \in 1..Len(ids) : ids[i] = a})

\* the pairs of ids with one sort key that both occur in ids
TiedPairs(ids) ==
    {<<a, b>> \in Range(ids) \X Range(ids) :
        a # b /\ get_numeric_identifier(a) = get_numeric_identifier(b)}

SameTieOrder(ids1, ids2) ==
    \A pair \in TiedPairs(ids1) \cap TiedPairs(ids2) :
        (PosIn(ids1, pair[1]) < PosIn(ids1, pair[2]))
            <=> (PosIn(ids2, pair[1]) < PosIn(ids2, pair[2]))

\* the same incoming issues in every order of arrival
Rearrangements(ids) == {s \in SeqsOfLen(Range(ids), Len(ids)) : Range(s) = Range(ids)}

\* the loop of main() over a whole sequence of issues
RECURSIVE MergeIssues(_, _)
MergeIssues(es, issues) ==
    IF issues = <<>> THEN es
    ELSE MergeIssues(merge_issue(es, Head(issues), TRUE), Tail(issues))

\* C11 as stated: two records with the same sort key stand in the merged sequence
\* in an order their ids decide, whatever the order in which the incoming
\* records arrived.
C11_TieOrderIndependentOfArrival ==
    \A other \in Rearrangements(Processed) :
        SameTieOrder(Identifiers(entries),
                     Identifiers(MergeIssues(load_entries(startFiles),
                                             IssuesAt(other, StartTime))))

\* C11 as amended: two records with the same sort key stand in the merged sequence
\* in order of arrival: records of the baseline keep their order, a new record
\* comes after every baseline record of its key and after every new record of its
\* key that arrived before it.
C11_TiesInArrivalOrder ==
    LET ids == Identifiers(entries)
        base == DiskIds(startFiles)
    IN  \A pair \in TiedPairs(ids) :
            PosIn(ids, pair[1]) < PosIn(ids, pair[2]) =>
                IF pair[2] \in Range(base)
                THEN /\ pair[1] \in Range(base)
                     /\ PosIn(base, pair[1]) < PosIn(base, pair[2])
                ELSE \/ pair[1] \in Range(base)
                     \/ PosIn(Processed, pair[1]) < PosIn(Processed, pair[2])

C11_Witness ==
    /\ updated_issues = <<>>
    /\ IdLow \in Range(new_identifiers)
    /\ IdTie \in Range(new_identifiers)
    /\ PosIn(Identifiers(entries), IdTie) < PosIn(Identifiers(entries), IdLow)
    /\ PosIn(Identifiers(entries), IdLow) < Len(entries)

\* C12: when the id of an incoming record is already among the entries, the merge
\* of that record changes the body of one entry of that id and nothing else: the
\* sequence of ids keeps its order and length, every other entry keeps its body.
C12_InPlaceUpdate ==
    [][(/\ script = "incremental_linear" /\ pc = "merge" /\ pc' = "merge"
        /\ updated_issues # <<>>
        /\ InEntryMap(entries, Head(updated_issues).identifier))
            => /\ Identifiers(entries') = Identifiers(entries)
               /\ \A i \in 1..Len(entries) :
                     entries'[i] # entries[i] =>
                        /\ entries[i].identifier = Head(updated_issues).identifier
                        /\ \A j \in 1..Len(entries) : j # i => entries'[j] = entries[j]]_vars

C12_Witness ==
    /\ updated_issues = <<>>
    /\ Len(touched_identifiers) = 1
    /\ new_identifiers = <<>>
    /\ Len(entries) >= 3
    /\ entries # load_entries(startFiles)
    /\ Cardinality({i \in 1..Len(entries) : entries[i] = load_entries(startFiles)[i]})
            = Len(entries) - 1

\* the batch files fs satisfy the batch layout invariant
BatchLayoutOk(fs) ==
    LET N == Cardinality(ExistingIdx(fs))
    IN  /\ ExistingIdx(fs) = 1..N
        /\ \A b \in 1..N :
              /\ fs[b].split
              /\ IF b < N THEN Len(BlockEntries(fs[b].blocks)) = BATCH_SIZE
                 ELSE Len(BlockEntries(fs[b].blocks)) \in 1..BATCH_SIZE

BatchEffects == {i \in 1..Len(effects) : effects[i].op \in {"write", "unlink"}}

\* C13 as stated: an incremental Linear run that fetches no changed record
\* rewrites no batch file and deletes none, whatever loadable batch files exist.
C13_MinimalRewriteAnyLayout ==
    (ran = "incremental_linear" /\ fetched = <<>>) =>
        /\ BatchEffects = {}
        /\ files = startFiles

\* C13 as amended: an incremental Linear run that fetches no changed record
\* rewrites no batch file and deletes none when the batch files it starts from
\* satisfy the batch layout invariant.
C13_MinimalRewrite ==
    (ran = "incremental_linear" /\ fetched = <<>> /\ BatchLayoutOk(startFiles)) =>
        /\ BatchEffects = {}
        /\ files = startFiles

C13_Witness ==
    /\ CompletedLinearRun
    /\ fetched = <<>>
    /\ BatchLayoutOk(startFiles)
    /\ Len(DiskIds(startFiles)) = BATCH_SIZE + 1
    /\ files = startFiles
    /\ statusDoc # startDoc

\* the batch files the latest run wrote, the batch files it deleted
WrittenBatches == {effects[i].target : i \in {k \in 1..Len(effects) : effects[k].op = "write"}}

DeletedBatches == {effects[i].target : i \in {k \in 1..Len(effects) : effects[k].op = "unlink"}}

\* the ids the loader reads from batch file b of fs
BatchIds(fs, b) == IF fs[b].exists THEN Identifiers(BlockEntries(fs[b].blocks)) ELSE <<>>

\* C14: a completed incremental Linear run that starts from batch files satisfying
\* the batch layout invariant and fetches only ids those files hold writes exactly
\* the batch files that hold a fetched id; every other batch file is neither
\* written nor deleted.
C14_RewriteOnlyTouchedBatches ==
    (/\ CompletedLinearRun
     /\ BatchLayoutOk(startFiles)
     /\ fetched # <<>>
     /\ Range(fetched) \subseteq Range(DiskIds(startFiles))) =>
        /\ WrittenBatches =
              {b \in DOMAIN startFiles : Range(BatchIds(startFiles, b)) \cap Range(fetched) # {}}
        /\ DeletedBatches = {}
        /\ \A b \in DOMAIN files : b \notin WrittenBatches => files[b] = startFiles[b]

C14_Witness ==
    /\ CompletedLinearRun
    /\ BatchLayoutOk(startFiles)
    /\ fetched # <<>>
    /\ Range(fetched) \subseteq Range(DiskIds(startFiles))
    /\ ExistingIdx(startFiles) = {1, 2}
    /\ WrittenBatches = {2}
    /\ files[2] # startFiles[2]
    /\ files[1] = startFiles[1]

\* the sorted position a new id takes among the ids base: after every id whose
\* sort key is not greater
SortedPosition(base, a) ==
    1 + Cardinality({i \in 1..Len(base) :
                        get_numeric_identifier(base[i]) <= get_numeric_identifier(a)})

BatchOfPosition(pos) == ((pos - 1) \div BATCH_SIZE) + 1

\* the run fetched one id, which the batch files it started from do not hold
OneNewRecord ==
    /\ Cardinality(Range(fetched)) = 1
    /\ Range(fetched) \cap Range(DiskIds(startFiles)) = {}

\* C15: a completed incremental Linear run that starts from batch files satisfying
\* the batch layout invariant and fetches one new record, of sorted position p,
\* writes every batch from the one holding position p to the last one, a newly
\* created last batch included, and writes no batch of lower index; from 50
\* baseline ids and a position within them it leaves file 1 with 50 members and
\* file 2 with 1, both written.
C15_RewriteFromInsertionOn ==
    (/\ CompletedLinearRun
     /\ BatchLayoutOk(startFiles)
     /\ NonDecreasing(SortKeys(DiskIds(startFiles)))
     /\ OneNewRecord) =>
        LET base == DiskIds(startFiles)
            pos == SortedPosition(base, fetched[1])
            last == BatchOfPosition(Len(base) + 1)
        IN  /\ WrittenBatches = BatchOfPosition(pos)..last
            /\ DeletedBatches = {}
            /\ \A b \in 1..(BatchOfPosition(pos) - 1) : files[b] = startFiles[b]
            /\ (Len(base) = BATCH_SIZE /\ pos <= BATCH_SIZE) =>
                  /\ WrittenBatches = {1, 2}
                  /\ Len(BatchIds(files, 1)) = BATCH_SIZE
                  /\ Len(BatchIds(files, 2)) = 1
                  /\ BatchIds(files, 2) = <<base[BATCH_SIZE]>>

\* the new record goes to the front of a full single batch
C15_Witness ==
    /\ CompletedLinearRun
    /\ BatchLayoutOk(startFiles)
    /\ OneNewRecord
    /\ Len(DiskIds(startFiles)) = BATCH_SIZE
    /\ SortedPosition(DiskIds(startFiles), fetched[1]) = 1
    /\ WrittenBatches = {1, 2}
    /\ ~startFiles[2].exists
    /\ files[2].exists

\* the new record goes past a full first batch, which is left alone
AppendedPastFullBatch ==
    /\ CompletedLinearRun
    /\ BatchLayoutOk(startFiles)
    /\ OneNewRecord
    /\ Len(DiskIds(startFiles)) = BATCH_SIZE
    /\ SortedPosition(DiskIds(startFiles), fetched[1]) = BATCH_SIZE + 1
    /\ WrittenBatches = {2}
    /\ files[1] = startFiles[1]

----------------------------------------------------------------------------
(* The status document after a run *)

\* the first line under the summary section heading that is not blank
SectionStart(doc) == SkipBlank(doc.lines, FirstOf(HeadingLines(doc.lines)) + 1)

\* an incremental run completes in this step
Completes == ran \in Incremental /\ outcome = "running" /\ outcome' = "done"

\* C16: an incremental run that fetched no record and completes persists the
\* current time, to the second, as the watermark and leaves, first under the
\* section heading, a summary line whose change description is "no changes".
C16_ZeroIncomingAdvancesToNow ==
    [][(Completes /\ fetched = <<>>)
            => /\ StatusTimestamp(statusDoc') = format_iso_timestamp(clock)
               /\ SectionStart(statusDoc') <= Len(statusDoc'.lines)
               /\ statusDoc'.lines[SectionStart(statusDoc')].k = "bullet"
               /\ change_description(statusDoc'.lines[SectionStart(statusDoc')].sum)
                     = <<"no changes">>]_vars

MaxOf(S) == CHOOSE x \in S : \A y \in S : y <= x

\* the updated_at values of the records the latest run touched: the issues the
\* Linear run fetched, the pages the Notion run exported
TouchedTimes ==
    IF ran = "incremental_linear"
    THEN {src[a] : a \in Range(fetched)}
    ELSE {src[files[path].page] : path \in WrittenBatches}

\* C17: the watermark an incremental run persists is, to the second, the greatest
\* of the previous watermark, the updated_at values of the records the run
\* touched, and the current time.
C17_WatermarkValue ==
    [][Completes
            => StatusTimestamp(statusDoc') =
                  format_iso_timestamp(
                      MaxOf({StatusTimestamp(startDoc), clock} \cup TouchedTimes))]_vars

\* C18: when an incremental run completes, the watermark the next run parses from
\* the status document the run wrote is the final timestamp the run computed, to
\* the second, whatever the document the run parsed its own watermark from.
C18_WatermarkRoundTrip ==
    [][Completes
            => /\ StatusParses(statusDoc')
               /\ parse_iso_datetime(StatusTimestamp(statusDoc')) =
                     format_iso_timestamp(Max2(latest_updated_at, clock))]_vars

\* the lines of the summary section: those under the section heading
SectionLines(doc) ==
    (FirstOf(HeadingLines(doc.lines)) + 1)..Len(doc.lines)

\* the summary line the completing run generates
GeneratedSummary ==
    IF ran = "incremental_linear"
    THEN summarize_changes(touched_identifiers, new_identifiers, rewritten_files)
    ELSE notion_summarize_changes(touched_identifiers, new_identifiers)

\* C19: when an incremental run completes, the summary section of the status
\* document holds exactly one bulleted line, the summary this run generated; a
\* placeholder or an earlier summary line under the heading is gone.
C19_OnlyLatestSummary ==
    [][Completes
            => LET doc == statusDoc'
                   bullets == {i \in SectionLines(doc) : doc.lines[i].k = "bullet"}
               IN  /\ Cardinality(bullets) = 1
                   /\ \A i \in bullets : doc.lines[i] = GeneratedSummary
                   /\ \A i \in SectionLines(doc) : doc.lines[i].k # "placeholder"]_vars

----------------------------------------------------------------------------
(* Records whose content could not be fetched *)

\* the record bodies in the output fs that were written without their content
\* (an issue without its comments, a page without all of its blocks)
TruncatedBodies(fs) ==
    IF system = "linear"
    THEN UNION {{fs[b].blocks[i] : i \in {k \in 1..Len(fs[b].blocks) :
                                             ~fs[b].blocks[k].text.full}} :
                    b \in ExistingIdx(fs)}
    ELSE {fs[path] : path \in {q \in DOMAIN fs : fs[q].exists /\ ~fs[q].full}}

\* C20: a record whose content request fails during an incremental run is left
\* out of the incoming set: the run writes no body made without that content, so
\* the body the output held for the record stays as it was.
C20_FailedFetchOmitsRecord ==
    ran \in Incremental => TruncatedBodies(files) \subseteq TruncatedBodies(startFiles)

----------------------------------------------------------------------------
(* Batch files the loader cannot read as written *)

\* a block after the header whose first line does not start with "# "
StrayBlocks(fs) ==
    {<<i, k>> \in (DOMAIN fs) \X (1..(2 * BATCH_SIZE + 4)) :
        fs[i].exists /\ k <= Len(fs[i].blocks) /\ ~fs[i].blocks[k].heading}

\* a file without the delimiter after its header, or a file with a member block
\* that yields no identifier
Malformed(fs) == ~Loadable(fs) \/ StrayBlocks(fs) # {}

\* C21: an incremental Linear run that starts from a batch file that cannot be
\* split into header and blocks, or that holds a block yielding no identifier,
\* fails, and has written and deleted no file; no part of a file is skipped.
C21_MalformedBaselineIsFatal ==
    (ran = "incremental_linear" /\ Malformed(startFiles)) =>
        /\ outcome # "done"
        /\ effects = <<>>
        /\ files = startFiles

----------------------------------------------------------------------------
(* Two runs over the same incoming records: main() from line 447 on, then
   main() again with the queries delivering what they delivered before *)

MaxReplayed == 2

\* the loadable ways a small baseline may lie on disk
ReplayLayouts(ids) == {fs \in Layouts(EntriesOf(ids)) : Loadable(Pad(fs))}

\* main() after line 445, as InitMerge, with a further run to come
InitTwice ==
    /\ system = "linear"
    /\ nbulk = 0
    /\ clock = StartTime
    /\ mods = 0
    /\ src = [a \in ActiveIds |-> NotCreated]
    /\ LINEAR_API_KEY = TRUE
    /\ NOTION_API_SECRET = TRUE
    /\ statusDoc = GoodDoc
    /\ \E ids \in Baselines : \E fs \in ReplayLayouts(ids) : files = Pad(fs)
    /\ script = "incremental_linear"
    /\ pc = "merge"
    /\ status_text = statusDoc.lines
    /\ last_sync_dt = StatusTimestamp(statusDoc)
    /\ \E n \in 0..MaxReplayed : \E ids \in SeqsOfLen(Range(MergePool), n) :
          /\ fetched = ids
          /\ updated_issues = IssuesAt(ids, StartTime)
    /\ entries = load_entries(files)
    /\ existing_batches = load_batches(files)
    /\ touched_identifiers = <<>>
    /\ new_identifiers = <<>>
    /\ latest_updated_at = last_sync_dt
    /\ changed_batches = <<>>
    /\ stale_batches = <<>>
    /\ rewritten_files = <<>>
    /\ effects = <<>>
    /\ startDoc = statusDoc
    /\ startFiles = files
    /\ outcome = "running"
    /\ ran = "incremental_linear"
    /\ crash = [script |-> "none", files |-> files]
    /\ runs_left = 1
    /\ kills_left = 0
    /\ output_dir = TRUE
    /\ startDir = TRUE
    /\ LibraryIdle

\* lines 428-445 of the next run: the status document parsed, the same issues
\* fetched, the batch files the first run left loaded
LinearRerun ==
    /\ script = "none"
    /\ ran = "incremental_linear"
    /\ outcome = "done"
    /\ runs_left > 0
    /\ runs_left' = runs_left - 1
    /\ StatusParses(statusDoc)
    /\ Loadable(files)
    /\ script' = "incremental_linear"
    /\ pc' = "merge"
    /\ outcome' = "running"
    /\ status_text' = statusDoc.lines
    /\ last_sync_dt' = StatusTimestamp(statusDoc)
    /\ updated_issues' = IssuesAt(fetched, StartTime)
    /\ entries' = load_entries(files)
    /\ existing_batches' = load_batches(files)
    /\ touched_identifiers' = <<>>
    /\ new_identifiers' = <<>>
    /\ latest_updated_at' = StatusTimestamp(statusDoc)
    /\ changed_batches' = <<>>
    /\ stale_batches' = <<>>
    /\ rewritten_files' = <<>>
    /\ effects' = <<>>
    /\ startDoc' = statusDoc
    /\ startFiles' = files
    /\ UNCHANGED <<clock, src, mods, envVars, files, statusDoc,
                   fetched, ran, crash, kills_left, output_dir, startDir>>

NextTwice ==
    \/ LinearMerge
    \/ LinearDiff
    \/ LinearWriteBatch
    \/ LinearUnlink
    \/ LinearUpdateStatus
    \/ LinearRerun

SpecTwice == InitTwice /\ [][NextTwice]_vars

\* the second of the two runs has completed
SecondRunDone == ran = "incremental_linear" /\ outcome = "done" /\ runs_left = 0

\* the members the loader reads from batch file b: identifiers and bodies
MembersOf(fs, b) == IF fs[b].exists THEN BlockEntries(fs[b].blocks) ELSE <<>>

SameBatchFiles(fs1, fs2) ==
    /\ ExistingIdx(fs1) = ExistingIdx(fs2)
    /\ \A b \in ExistingIdx(fs1) : MembersOf(fs1, b) = MembersOf(fs2, b)

\* every comments request of both runs was answered
CommentsFetched == TruncatedBodies(files) = {} /\ TruncatedBodies(startFiles) = {}

\* C22: when the incoming records of a completed run are applied a second time
\* to the batch files that run left, the batch files keep their indices, their
\* member ids in order and their member bodies.
C22_Idempotence ==
    (SecondRunDone /\ CommentsFetched) => SameBatchFiles(files, startFiles)

----------------------------------------------------------------------------
(* A run without its credential *)

CredentialSet ==
    IF ran = "incremental_linear" THEN LINEAR_API_KEY ELSE NOTION_API_SECRET

\* C23: an incremental run started without its API credential fails before any
\* request is made and before any file or directory is created, written or
\* deleted.
C23_MissingCredentialNoSideEffects ==
    (ran \in Incremental /\ ~CredentialSet) =>
        /\ outcome \in {"running", "killed", "config_error"}
        /\ fetched = <<>>
        /\ effects = <<>>
        /\ files = startFiles
        /\ statusDoc = startDoc
        /\ output_dir = startDir

\* the same, the output directory left aside
C23_FilesAndRequests ==
    (ran \in Incremental /\ ~CredentialSet) =>
        /\ outcome \in {"running", "killed", "config_error"}
        /\ fetched = <<>>
        /\ effects = <<>>
        /\ files = startFiles
        /\ statusDoc = startDoc

----------------------------------------------------------------------------
(* Bodies that hold the delimiter *)

\* some entry of the batch has a body that the delimiter cuts into several blocks
HoldsDelimiter(batch_entries) ==
    \E i \in 1..Len(batch_entries) : Len(batch_entries[i].content) > 1

\* the batches this run has written so far, each from the entries in memory
WrittenSoFar == {b \in Range(rewritten_files) : b \in DOMAIN build_batches(entries)}

\* the blocks of batch file b that carry the heading of a record the run did not
\* fetch
KeptHeadings(b) ==
    {k \in 1..Len(files[b].blocks) :
        /\ files[b].blocks[k].heading
        /\ files[b].blocks[k].identifier \notin Range(fetched)}

\* the text of batch file b of fs that follows a delimiter inside the body of a
\* record: a block without a heading line right after a block with one
Tails(fs, b) ==
    {k \in 2..Len(fs[b].blocks) : ~fs[b].blocks[k].heading /\ fs[b].blocks[k - 1].heading}

\* C24: a batch written from entries of which one has a body holding the
\* delimiter is loaded without an error, and the entries loaded from it differ
\* from the entries it was written from; a later run that rewrites a batch
\* writes every record it did not fetch from what was loaded, without the text
\* that followed the delimiter in its body.
C24_DelimiterHazard ==
    /\ (script = "incremental_linear" /\ pc = "write") =>
          \A b \in WrittenSoFar :
              HoldsDelimiter(build_batches(entries)[b]) =>
                  /\ files[b].split
                  /\ BlockEntries(files[b].blocks) # build_batches(entries)[b]
    /\ ran = "incremental_linear" =>
          \A b \in WrittenBatches \cap ExistingIdx(files) :
              \A k \in KeptHeadings(b) : (k + 1) \notin Tails(files, b)

\* a completed run rewrote batch 1 without fetching the issue whose body on
\* disk held a delimiter: the text after the delimiter is gone
C24_Witness ==
    /\ CompletedLinearRun
    /\ 1 \in WrittenBatches
    /\ IdTie \notin Range(fetched)
    /\ \E k \in Tails(startFiles, 1) : startFiles[1].blocks[k - 1].identifier = IdTie
    /\ \E k \in 1..Len(files[1].blocks) : files[1].blocks[k].identifier = IdTie
    /\ Tails(files, 1) = {}

----------------------------------------------------------------------------
(* fetch_notion_docs.py: make_api_request, one call with the server answering
   as it likes *)

\* sys.getrecursionlimit() of the interpreter: the depth of nested calls at which
\* a further call raises RecursionError. The retry of line 66 is a nested call;
\* the frames of the callers and of the requests library come off this number.
RecursionLimit == 1000

StatusCodes == {200, 400, 404, 429, 500}

\* Retry-After of a 429 response, in seconds; 0 stands for a response without it
RetryAfterHeaders == {0, 1, 2}

\* the variables of the sync scripts
syncVars == <<clock, src, mods, system, nbulk, LINEAR_API_KEY, NOTION_API_SECRET,
              files, statusDoc, script, pc, localVars, histVars>>

\* no script runs and none will: nothing on disk, the source empty
NothingRuns ==
    /\ system = "notion"
    /\ nbulk = 0
    /\ src = [p \in NotionPages |-> NotCreated]
    /\ files = PageFiles({})
    /\ LINEAR_API_KEY = TRUE
    /\ NOTION_API_SECRET = TRUE
    /\ statusDoc = NoDoc
    /\ output_dir = TRUE
    /\ runs_left = 0
    /\ kills_left = 0
    /\ InitSync

InitLibrary == NothingRuns /\ LibraryIdle

\* a caller enters make_api_request
RequestCall ==
    /\ request_result = "idle"
    /\ request_result' = "requesting"
    /\ attempts' = 0
    /\ UNCHANGED <<response, retry_after, slept, syncVars, discoveryVars, searchVars>>

\* lines 50-59: the request is sent and answered; raise_for_status raises
\* HTTPError for a status of 400 and above
RequestSend ==
    /\ request_result = "requesting"
    /\ attempts' = attempts + 1
    /\ \E status \in StatusCodes :
          /\ response' = status
          /\ \E header \in RetryAfterHeaders :
                retry_after' = IF status = 429 THEN header ELSE 0
          /\ request_result' =
                IF status < 400 THEN "returned"
                ELSE IF status = 429 THEN "rate_limited"
                ELSE "HTTPError"
    /\ UNCHANGED <<slept, syncVars, discoveryVars, searchVars>>

\* lines 61-66: int(headers.get("Retry-After", 1)), time.sleep, the nested call
RequestRetry ==
    /\ request_result = "rate_limited"
    /\ slept' = IF retry_after = 0 THEN 1 ELSE retry_after
    /\ request_result' =
          IF attempts < RecursionLimit THEN "requesting" ELSE "RecursionError"
    /\ UNCHANGED <<attempts, response, retry_after, syncVars, discoveryVars, searchVars>>

NextRequest == RequestCall \/ RequestSend \/ RequestRetry

SpecRequest == InitLibrary /\ [][NextRequest]_vars

\* C25: make_api_request issues a further request exactly when the response is
\* a 429, after sleeping for the Retry-After time, however many requests it has
\* issued; the call ends only with the outcome of a response that is not a 429:
\* the parsed body, or the HTTPError of that response.
C25_RetryPolicy ==
    /\ request_result \in {"idle", "requesting", "rate_limited", "returned", "HTTPError"}
    /\ request_result = "returned" => response < 400
    /\ request_result = "HTTPError" => (response >= 400 /\ response # 429)
    /\ request_result = "rate_limited" => response = 429
    /\ (request_result = "requesting" /\ attempts > 0) =>
            (response = 429 /\ slept = (IF retry_after = 0 THEN 1 ELSE retry_after))

\* what holds of the retries: a request follows a 429 and the sleep it asks for,
\* every other error status is raised at once, and the call issues
\* RecursionLimit requests at most
RetryWithinLimit ==
    /\ attempts <= RecursionLimit
    /\ request_result = "returned" => response < 400
    /\ request_result = "HTTPError" => (response >= 400 /\ response # 429)
    /\ request_result = "RecursionError" => (attempts = RecursionLimit /\ response = 429)
    /\ (request_result = "requesting" /\ attempts > 0) =>
            (response = 429 /\ slept = (IF retry_after = 0 THEN 1 ELSE retry_after))

----------------------------------------------------------------------------
(* fetch_notion_docs.py: get_all_child_pages over a workspace of a few pages,
   of any shape: cycles, a page under several parents, a block listed twice *)

MaxPages == 3
MaxChildren == 2

PageIds == 1..MaxPages

\* the page the outermost call is made for
RootPage == 1

ChildLists == UNION {SeqsOfLen(PageIds, n) : n \in 0..MaxChildren}

Prefixes(s) == {SubSeq(s, 1, n) : n \in 0..Len(s)}

\* a test that lets every child through
fetch_child_always(child_id_clean, visited_set) == TRUE

\* line 258: the child is fetched unless a call has been made for it
fetch_child(child_id_clean, visited_set) == child_id_clean \notin visited_set

\* one call of get_all_child_pages: the page, the blocks the loop has yet to
\* look at, the list it has built
Frame(page, blocks) == [page |-> page, blocks |-> blocks, child_pages |-> <<>>]

InitDiscovery ==
    /\ NothingRuns
    /\ RequestIdle
    /\ SearchIdle
    /\ child_blocks \in [PageIds -> ChildLists]
    /\ visited = {}
    /\ frames = <<>>
    /\ block_fetches = [p \in PageIds |-> 0]
    /\ discovered = [done |-> FALSE, child_pages |-> <<>>]

\* the outermost call, lines 231-248: the page joins visited and its blocks are
\* fetched; get_page_blocks stops at a failed request and returns the blocks it
\* has by then
DiscoverCall ==
    /\ frames = <<>>
    /\ ~discovered.done
    /\ visited' = visited \cup {RootPage}
    /\ block_fetches' = [block_fetches EXCEPT ![RootPage] = @ + 1]
    /\ \E blocks \in Prefixes(child_blocks[RootPage]) :
          frames' = <<Frame(RootPage, blocks)>>
    /\ UNCHANGED <<child_blocks, discovered, syncVars, requestVars, searchVars>>

\* lines 252-268: one iteration of the loop of the innermost call. A child that
\* passes the test of line 258 is requested; if the request raises, the handler
\* of line 268 prints and the loop goes on. Otherwise the page is appended and
\* the nested call is made, which returns at once for a visited page (line 240)
\* and else marks the page, fetches its blocks and runs its own loop.
DiscoverBlock ==
    /\ frames # <<>>
    /\ frames[Len(frames)].blocks # <<>>
    /\ LET top == frames[Len(frames)]
           child_id == Head(top.blocks)
           skipped == [frames EXCEPT ![Len(frames)].blocks = Tail(top.blocks)]
           appended == [skipped EXCEPT ![Len(frames)].child_pages =
                                            Append(top.child_pages, child_id)]
       IN  IF fetch_child(child_id, visited)
           THEN \E request_ok \in BOOLEAN :
                   IF ~request_ok
                   THEN /\ frames' = skipped
                        /\ UNCHANGED <<visited, block_fetches>>
                   ELSE IF child_id \in visited
                   THEN /\ frames' = appended
                        /\ UNCHANGED <<visited, block_fetches>>
                   ELSE /\ visited' = visited \cup {child_id}
                        /\ block_fetches' = [block_fetches EXCEPT ![child_id] = @ + 1]
                        /\ \E blocks \in Prefixes(child_blocks[child_id]) :
                              frames' = Append(appended, Frame(child_id, blocks))
           ELSE /\ frames' = skipped
                /\ UNCHANGED <<visited, block_fetches>>
    /\ UNCHANGED <<child_blocks, discovered, syncVars, requestVars, searchVars>>

\* line 271, and line 266 of the caller: the list goes to the end of the
\* caller's list, or to the caller of the outermost call
DiscoverReturn ==
    /\ frames # <<>>
    /\ frames[Len(frames)].blocks = <<>>
    /\ LET returned == frames[Len(frames)].child_pages
           callers == SubSeq(frames, 1, Len(frames) - 1)
       IN  IF callers = <<>>
           THEN /\ frames' = <<>>
                /\ discovered' = [done |-> TRUE, child_pages |-> returned]
           ELSE /\ frames' = [callers EXCEPT ![Len(callers)].child_pages = @ \o returned]
                /\ UNCHANGED discovered
    /\ UNCHANGED <<child_blocks, visited, block_fetches, syncVars, requestVars, searchVars>>

NextDiscovery == DiscoverCall \/ DiscoverBlock \/ DiscoverReturn

\* the interpreter goes on executing the call
SpecDiscovery == InitDiscovery /\ [][NextDiscovery]_vars /\ WF_vars(NextDiscovery)

\* page q is reached from page p through child_page blocks
RECURSIVE ReachableIn(_, _, _)
ReachableIn(p, q, steps) ==
    IF steps = 0 THEN FALSE
    ELSE \E c \in Range(child_blocks[p]) : c = q \/ ReachableIn(c, q, steps - 1)

Parents(q) == {p \in PageIds : q \in Range(child_blocks[p])}

\* C26: whatever the shape of the page graph, get_all_child_pages returns, has
\* then fetched the blocks of no page more than once, and returns no page more
\* than once.
C26_CycleGuardedDiscovery ==
    /\ [](\A p \in PageIds : block_fetches[p] <= 1)
    /\ [](discovered.done => Unique(discovered.child_pages))
    /\ <>(discovered.done)

\* the call has returned from a graph with a cycle through the root and a page
\* under two parents, and returned that page
C26_Witness ==
    /\ discovered.done
    /\ ReachableIn(RootPage, RootPage, MaxPages)
    /\ \E q \in Range(discovered.child_pages) : Cardinality(Parents(q)) >= 2
    /\ Len(discovered.child_pages) = MaxPages - 1

----------------------------------------------------------------------------
(* The file a Notion page is written to *)

\* C27: a run of the incremental Notion export writes a page either to a path
\* where no file exists or over a file that holds the same page id; it never
\* writes a page over the file of another page.
C27_NoClobber ==
    [][(system = "notion" /\ script = "incremental_notion") =>
          \A path \in DOMAIN files :
              (files'[path] # files[path] /\ files[path].exists) =>
                  files'[path].page = files[path].page]_vars

----------------------------------------------------------------------------
(* fetch_notion_incremental_updates.py: search_recent_pages against a server
   that serves the pages of the workspace latest edit first, cut into result
   pages of any length from 1 to PAGE_SIZE *)

PAGE_SIZE == 100

MaxResults == 4
MaxTime == 3

EditTimes == 1..MaxTime

\* the orders the server may serve n pages in: last_edited_time descending
Descending(n) ==
    {s \in SeqsOfLen(EditTimes, n) : \A i, j \in 1..n : i < j => s[i] >= s[j]}

\* the ways of cutting n results into result pages: the lengths of the pages
RECURSIVE Cuts(_)
Cuts(n) ==
    IF n = 0 THEN {<<>>}
    ELSE UNION {{<<k>> \o rest : rest \in Cuts(n - k)} : k \in 1..Min2(n, PAGE_SIZE)}

RECURSIVE SumTo(_, _)
SumTo(lengths, k) == IF k = 0 THEN 0 ELSE lengths[k] + SumTo(lengths, k - 1)

\* the indices of the results on result page number k (none past the last page)
ResultPage(k) ==
    IF k > Len(result_pages) THEN <<>>
    ELSE [i \in 1..result_pages[k] |-> SumTo(result_pages, k - 1) + i]

\* the test that keeps every page edited at or after updated_after
is_newer_or_equal(last_dt, after) == last_dt >= after

\* lines 161-163: a page is kept unless last_dt <= updated_after
is_newer(last_dt, after) == ~(last_dt <= after)

InitSearch ==
    /\ NothingRuns
    /\ RequestIdle
    /\ DiscoveryIdle
    /\ \E n \in 0..MaxResults :
          /\ workspace_pages \in Descending(n)
          /\ result_pages \in Cuts(n)
    /\ search_after \in EditTimes
    /\ start_cursor = 0
    /\ has_more = TRUE
    /\ results = <<>>
    /\ search_done = FALSE

\* lines 140-171: one iteration of the loop: a result page is requested, its
\* newer items are kept; the loop ends when has_more is false or the result
\* page held no newer item
SearchBatch ==
    /\ ~search_done
    /\ has_more
    /\ LET batch == ResultPage(start_cursor + 1)
           newer_items == SelectSeq(batch,
                              LAMBDA page : is_newer(workspace_pages[page], search_after))
           more == start_cursor + 1 < Len(result_pages)
       IN  /\ results' = results \o newer_items
           /\ has_more' = more
           /\ start_cursor' = start_cursor + 1
           /\ search_done' = (newer_items = <<>> \/ ~more)
    /\ UNCHANGED <<workspace_pages, result_pages, search_after,
                   syncVars, requestVars, discoveryVars>>

NextSearch == SearchBatch

SpecSearch == InitSearch /\ [][NextSearch]_vars

Qualifying == {page \in 1..Len(workspace_pages) : workspace_pages[page] > search_after}

\* C28: served the pages in descending order of last_edited_time,
\* search_recent_pages returns exactly the pages edited strictly after
\* updated_after, each once: the early stop drops none of them, and no page
\* edited at or before updated_after is returned.
C28_SearchReturnsExactlyNewer ==
    search_done => (Range(results) = Qualifying /\ Unique(results))

\* the loop stopped early, with result pages left unrequested, after a result
\* page that mixed newer and older pages and one that held no newer page
C28_Witness ==
    /\ search_done
    /\ has_more
    /\ start_cursor >= 2
    /\ results # <<>>
    /\ \E page \in Range(ResultPage(1)) : page \notin Qualifying
    /\ \E page \in 1..Len(workspace_pages) : workspace_pages[page] = search_after

----------------------------------------------------------------------------
(* The batch files a full export leaves *)

CompletedFullRun == ran = "full_linear" /\ outcome = "done" /\ fetched # <<>>

\* C29: after a completed full export of n > 0 issues the batch files on disk
\* are those of the indices 1..ceil(n / BATCH_SIZE), and read in index order
\* they hold exactly the issues fetched, in ascending order of numeric
\* identifier; no file of an earlier export is left.
C29_FullReplaceNoStale ==
    CompletedFullRun =>
        /\ ExistingIdx(files) = 1..((Len(fetched) + BATCH_SIZE - 1) \div BATCH_SIZE)
        /\ DiskIds(files) = fetched
        /\ NonDecreasing(SortKeys(fetched))

\* what holds: the run writes the files of those indices, from the issues in
\* ascending order, and deletes nothing
FullReplaceWritten ==
    CompletedFullRun =>
        /\ WrittenBatches = 1..((Len(fetched) + BATCH_SIZE - 1) \div BATCH_SIZE)
        /\ DeletedBatches = {}
        /\ ExistingIdx(files) = ExistingIdx(startFiles) \cup WrittenBatches
        /\ NonDecreasing(SortKeys(fetched))

----------------------------------------------------------------------------
(* Change accounting of the incremental Linear run *)

\* the loop of main() lines 447-463 has processed every issue delivered
MergeDone == script = "incremental_linear" /\ pc = "merge" /\ updated_issues = <<>>

\* identifiers of the baseline the run loaded
BaselineIds == {load_entries(startFiles)[i].identifier : i \in 1..Len(load_entries(startFiles))}

\* C30: in an incremental Linear run, whatever the sequence delivered (an
\* identifier may be delivered more than once), every distinct identifier
\* delivered is counted once, as new if the baseline lacks it and as updated if
\* the baseline holds it, never as both; the two counts add up to the number of
\* distinct identifiers delivered
C30_ChangeAccountingPartition ==
    MergeDone =>
        /\ Unique(new_identifiers \o touched_identifiers)
        /\ Range(new_identifiers) = Range(fetched) \ BaselineIds
        /\ Range(touched_identifiers) = Range(fetched) \cap BaselineIds
        /\ Len(touched_identifiers) + Len(new_identifiers) = Cardinality(Range(fetched))

\* what holds: every delivery is counted once, the first delivery of an
\* identifier the baseline lacks as new, every other delivery as updated
EveryDeliveryCounted ==
    MergeDone =>
        /\ Unique(new_identifiers)
        /\ Range(new_identifiers) = Range(fetched) \ BaselineIds
        /\ Range(fetched) \cap BaselineIds \subseteq Range(touched_identifiers)
        /\ Range(touched_identifiers) \subseteq Range(fetched)
        /\ Len(touched_identifiers) + Len(new_identifiers) = Len(fetched)

\* the same when no identifier is delivered twice
DistinctDeliveriesPartition ==
    (MergeDone /\ Unique(fetched)) =>
        /\ Unique(new_identifiers \o touched_identifiers)
        /\ Range(new_identifiers) = Range(fetched) \ BaselineIds
        /\ Range(touched_identifiers) = Range(fetched) \cap BaselineIds

====
